---- MODULE Spec2Model ----
(***************************************************************************)
(* Model of the complex-number proof assistant.                            *)
(*                                                                         *)
(*   - the command engine of src/prover-core.ts (class Prover working on   *)
(*     a State {goal, context, explicitCompletion});                       *)
(*   - the session tree of src/proof-session.ts (class ProofSession with   *)
(*     child sessions);                                                    *)
(*   - the frame API of src/example_contradiction.ts (class ProofSession   *)
(*     with frames, a global context and a command history, running the    *)
(*     Prover bundled in that file).                                       *)
(*                                                                         *)
(* Array indices are 1-based here and 0-based in the source.               *)
(***************************************************************************)
EXTENDS Integers, Sequences, FiniteSets, TLC

VARIABLES
    state,          \* core: the State handed to Prover.runCommand
    last,           \* core: the last runCommand call and its outcome
    sessions,       \* session tree: session id -> ProofSession fields
    treeLast,       \* session tree: the last operation and its outcome
    globalContext,  \* frame API: ProofSession.globalContext
    frames,         \* frame API: ProofSession.frames (in creation order)
    commandHistory, \* frame API: ProofSession.commandHistory
    frameLast       \* frame API: the last operation and its outcome

vars == <<state, last, sessions, treeLast, globalContext, frames, commandHistory, frameLast>>
coreVars == <<state, last>>
treeVars == <<sessions, treeLast>>
frameVars == <<globalContext, frames, commandHistory, frameLast>>

-----------------------------------------------------------------------------
(* Bounds *)

\* rewrite is not applied when the rewritten goal would have more nodes
MaxGoalSize == 8
\* number of commands that succeed in one run of the core specification
MaxSteps == 3
\* number of sessions of the session tree (root included)
MaxSessions == 2
\* number of commands the sessions of a tree record as executed
MaxExecuted == 1
\* number of records in the command history of a frame-API session
MaxHistory == 3
\* number of frames a frame-API session starts
MaxFrames == 2

-----------------------------------------------------------------------------
(* Sequence helpers *)

Range(s) == {s[i] : i \in 1..Len(s)}

RECURSIVE Flatten(_)
Flatten(ss) == IF ss = <<>> THEN <<>> ELSE Head(ss) \o Flatten(Tail(ss))

MapPrefix(x, ps) == [k \in 1..Len(ps) |-> <<x>> \o ps[k]]

-----------------------------------------------------------------------------
(* AST: Expr and Fact *)

VarNode(n) == [type |-> "var", name |-> n]
\* a ConstNode holds a number or a string; vtype tells which
ConstNode(v) == [type |-> "const", vtype |-> "number", value |-> v]
StrConstNode(v) == [type |-> "const", vtype |-> "string", value |-> v]
OpNode(o, as) == [type |-> "op", op |-> o, args |-> as]
FuncNode(n, as) == [type |-> "func", name |-> n, args |-> as]

add(a, b) == OpNode("add", <<a, b>>)
sub(a, b) == OpNode("sub", <<a, b>>)
mul(a, b) == OpNode("mul", <<a, b>>)
div(a, b) == OpNode("div", <<a, b>>)
neg(a) == OpNode("neg", <<a>>)
pow(a, b) == OpNode("pow", <<a, b>>)
conj(x) == FuncNode("conj", <<x>>)
Re(x) == FuncNode("Re", <<x>>)
Im(x) == FuncNode("Im", <<x>>)
sqnorm(x) == FuncNode("sqnorm", <<x>>)
eq(a, b) == [kind |-> "eq", lhs |-> a, rhs |-> b]
neq(a, b) == [kind |-> "neq", lhs |-> a, rhs |-> b]

\* what Map.get returns for an absent key
undefined == [kind |-> "undefined"]

RECURSIVE deepCloneExpr(_)
deepCloneExpr(e) ==
    CASE e.type = "var" -> [type |-> "var", name |-> e.name]
      [] e.type = "const" -> [type |-> "const", vtype |-> e.vtype, value |-> e.value]
      [] e.type = "op" ->
            [type |-> "op", op |-> e.op,
             args |-> [k \in 1..Len(e.args) |-> deepCloneExpr(e.args[k])]]
      [] e.type = "func" ->
            [type |-> "func", name |-> e.name,
             args |-> [k \in 1..Len(e.args) |-> deepCloneExpr(e.args[k])]]

\* JSON round trip of an Expr or a Fact
deepClone(x) ==
    IF "kind" \in DOMAIN x
    THEN [kind |-> x.kind, lhs |-> deepCloneExpr(x.lhs), rhs |-> deepCloneExpr(x.rhs)]
    ELSE deepCloneExpr(x)

RECURSIVE exprEquals(_, _)
exprEquals(a, b) ==
    IF a.type # b.type THEN FALSE
    ELSE CASE a.type = "var" -> b.name = a.name
           [] a.type = "const" -> b.vtype = a.vtype /\ b.value = a.value
           [] a.type = "op" ->
                 /\ a.op = b.op
                 /\ Len(a.args) = Len(b.args)
                 /\ \A k \in 1..Len(a.args) : exprEquals(a.args[k], b.args[k])
           [] a.type = "func" ->
                 /\ a.name = b.name
                 /\ Len(a.args) = Len(b.args)
                 /\ \A k \in 1..Len(a.args) : exprEquals(a.args[k], b.args[k])

RECURSIVE SumSeq(_)
SumSeq(ns) == IF ns = <<>> THEN 0 ELSE Head(ns) + SumSeq(Tail(ns))

\* number of nodes of an expression
RECURSIVE exprSize(_)
exprSize(e) ==
    IF e.type \in {"op", "func"}
    THEN 1 + SumSeq([k \in 1..Len(e.args) |-> exprSize(e.args[k])])
    ELSE 1

factSize(f) == exprSize(f.lhs) + exprSize(f.rhs)

\* pre-order list of the paths (argument indices) at which target occurs in root
RECURSIVE findOccurrencesInExpr(_, _)
findOccurrencesInExpr(root, target) ==
    LET here == IF exprEquals(root, target) THEN << <<>> >> ELSE <<>>
        below == IF root.type \in {"op", "func"}
                 THEN Flatten([k \in 1..Len(root.args) |->
                          MapPrefix(k, findOccurrencesInExpr(root.args[k], target))])
                 ELSE <<>>
    IN  here \o below

RECURSIVE getAtPathInExpr(_, _)
getAtPathInExpr(node, path) ==
    IF path = <<>> THEN node ELSE getAtPathInExpr(node.args[Head(path)], Tail(path))

\* a path of a fact starts with "lhs" or "rhs"
getAtPathInFact(f, path) ==
    IF Head(path) = "lhs" THEN getAtPathInExpr(f.lhs, Tail(path))
    ELSE getAtPathInExpr(f.rhs, Tail(path))

RECURSIVE setAtPathInExpr(_, _, _)
setAtPathInExpr(node, path, replacement) ==
    IF path = <<>> THEN replacement
    ELSE [node EXCEPT !.args[Head(path)] =
              setAtPathInExpr(node.args[Head(path)], Tail(path), replacement)]

\* what setAtPathInFact leaves when it throws (empty path)
rootReplaced == [kind |-> "throw"]

\* setAtPathInFact that replaces the whole side of the fact the path starts in
setAtPathInFact_side(f, path, replacement) ==
    IF path = <<>> THEN rootReplaced
    ELSE [f EXCEPT ![Head(path)] = replacement]

\* the fact after the in-place replacement
setAtPathInFact(f, path, replacement) ==
    IF path = <<>> THEN rootReplaced
    ELSE IF Head(path) = "lhs"
    THEN [f EXCEPT !.lhs = setAtPathInExpr(f.lhs, Tail(path), replacement)]
    ELSE [f EXCEPT !.rhs = setAtPathInExpr(f.rhs, Tail(path), replacement)]

-----------------------------------------------------------------------------
(* Helpers of the commands *)

\* canProveNonZero that lets a sum or a difference force its terms
RECURSIVE canProveNonZero_additive(_, _)
canProveNonZero_additive(expr, component) ==
    IF exprEquals(expr, component) THEN TRUE
    ELSE IF expr.type = "op" THEN
        IF expr.op \in {"mul", "div", "neg", "add", "sub"}
        THEN \E k \in 1..Len(expr.args) : canProveNonZero_additive(expr.args[k], component)
        ELSE FALSE
    ELSE IF expr.type = "func" THEN
        IF expr.name \in {"sqnorm", "Re", "Im", "conj"}
        THEN canProveNonZero_additive(expr.args[1], component)
        ELSE FALSE
    ELSE FALSE

RECURSIVE canProveNonZero(_, _)
canProveNonZero(expr, component) ==
    IF exprEquals(expr, component) THEN TRUE
    ELSE IF expr.type = "op" THEN
        CASE expr.op = "mul" ->
                \E k \in 1..Len(expr.args) : canProveNonZero(expr.args[k], component)
          [] expr.op = "div" ->
                \/ canProveNonZero(expr.args[1], component)
                \/ canProveNonZero(expr.args[2], component)
          [] expr.op = "neg" -> canProveNonZero(expr.args[1], component)
          [] OTHER -> FALSE
    ELSE IF expr.type = "func" THEN
        IF expr.name \in {"sqnorm", "Re", "Im", "conj"}
        THEN canProveNonZero(expr.args[1], component)
        ELSE FALSE
    ELSE FALSE

\* isConstantExpr that looks at the root node only
isConstantExpr_shallow(e) == e.type # "var"

RECURSIVE isConstantExpr(_)
isConstantExpr(e) ==
    CASE e.type = "const" -> TRUE
      [] e.type = "var" -> FALSE
      [] OTHER -> \A k \in 1..Len(e.args) : isConstantExpr(e.args[k])

\* collectDenominatorsInExpr that does not descend into a denominator
RECURSIVE collectDenominatorsInExpr_shallow(_)
collectDenominatorsInExpr_shallow(expr) ==
    IF expr.type = "op" THEN
        IF expr.op = "div"
        THEN <<expr.args[2]>> \o collectDenominatorsInExpr_shallow(expr.args[1])
        ELSE Flatten([k \in 1..Len(expr.args) |-> collectDenominatorsInExpr_shallow(expr.args[k])])
    ELSE IF expr.type = "func"
    THEN Flatten([k \in 1..Len(expr.args) |-> collectDenominatorsInExpr_shallow(expr.args[k])])
    ELSE <<>>

RECURSIVE collectDenominatorsInExpr(_)
collectDenominatorsInExpr(expr) ==
    IF expr.type = "op" THEN
        IF expr.op = "div"
        THEN <<expr.args[2]>> \o collectDenominatorsInExpr(expr.args[1])
                              \o collectDenominatorsInExpr(expr.args[2])
        ELSE Flatten([k \in 1..Len(expr.args) |-> collectDenominatorsInExpr(expr.args[k])])
    ELSE IF expr.type = "func"
    THEN Flatten([k \in 1..Len(expr.args) |-> collectDenominatorsInExpr(expr.args[k])])
    ELSE <<>>

-----------------------------------------------------------------------------
(* Pattern matching of rewrite rules *)

\* the variable names that start with '?' or '$'
PatternVarNames == {"?a", "?b"}
isPatternVar(v) == v.name \in PatternVarNames

\* bindings are a function from the bound pattern-variable names to Expr;
\* the result is [ok, bindings]
RECURSIVE patternMatch(_, _, _)
RECURSIVE patternMatchArgs(_, _, _, _)
\* a match of the arguments that starts every argument with no binding
RECURSIVE patternMatchArgs_fresh(_, _, _, _)
patternMatchArgs_fresh(pargs, nargs, k, bindings) ==
    IF k > Len(pargs) THEN [ok |-> TRUE, bindings |-> bindings]
    ELSE LET r == patternMatch(pargs[k], nargs[k], <<>>)
             both == [n \in DOMAIN bindings \cup DOMAIN r.bindings |->
                         IF n \in DOMAIN r.bindings THEN r.bindings[n] ELSE bindings[n]]
         IN  IF r.ok THEN patternMatchArgs_fresh(pargs, nargs, k + 1, both)
             ELSE [ok |-> FALSE, bindings |-> both]
patternMatchArgs(pargs, nargs, k, bindings) ==
    IF k > Len(pargs) THEN [ok |-> TRUE, bindings |-> bindings]
    ELSE LET r == patternMatch(pargs[k], nargs[k], bindings)
         IN  IF r.ok THEN patternMatchArgs(pargs, nargs, k + 1, r.bindings)
             ELSE [ok |-> FALSE, bindings |-> r.bindings]
patternMatch(pattern, node, bindings) ==
    IF pattern.type = "var" /\ isPatternVar(pattern) THEN
        IF pattern.name \in DOMAIN bindings
        THEN [ok |-> exprEquals(bindings[pattern.name], node), bindings |-> bindings]
        ELSE [ok |-> TRUE,
              bindings |-> [n \in DOMAIN bindings \cup {pattern.name} |->
                               IF n = pattern.name THEN deepClone(node) ELSE bindings[n]]]
    ELSE IF pattern.type # node.type THEN [ok |-> FALSE, bindings |-> bindings]
    ELSE CASE pattern.type = "const" ->
                [ok |-> node.vtype = pattern.vtype /\ node.value = pattern.value,
                 bindings |-> bindings]
           [] pattern.type = "var" -> [ok |-> pattern.name = node.name, bindings |-> bindings]
           [] pattern.type = "op" ->
                IF pattern.op # node.op \/ Len(pattern.args) # Len(node.args)
                THEN [ok |-> FALSE, bindings |-> bindings]
                ELSE patternMatchArgs(pattern.args, node.args, 1, bindings)
           [] pattern.type = "func" ->
                IF pattern.name # node.name \/ Len(pattern.args) # Len(node.args)
                THEN [ok |-> FALSE, bindings |-> bindings]
                ELSE patternMatchArgs(pattern.args, node.args, 1, bindings)

\* the node instantiate throws on: an unbound pattern variable
thrown == [type |-> "throw"]

RECURSIVE instantiate(_, _)
instantiate(pattern, bindings) ==
    IF pattern.type = "var" /\ isPatternVar(pattern) THEN
        IF pattern.name \in DOMAIN bindings THEN deepClone(bindings[pattern.name])
        ELSE thrown
    ELSE IF pattern.type \in {"var", "const"} THEN deepClone(pattern)
    ELSE [pattern EXCEPT !.args = [k \in 1..Len(pattern.args) |->
                                      instantiate(pattern.args[k], bindings)]]

RECURSIVE hasThrown(_)
hasThrown(e) ==
    \/ e.type = "throw"
    \/ /\ e.type \in {"op", "func"}
       /\ \E k \in 1..Len(e.args) : hasThrown(e.args[k])

\* the matches ms found in argument k, with k put in front of their paths
underArg(k, ms) ==
    [j \in 1..Len(ms) |-> [path |-> <<k>> \o ms[j].path, bindings |-> ms[j].bindings]]

\* pre-order list of [path, bindings] where pattern matches a subterm of root
RECURSIVE findPatternOccurrencesInExpr(_, _)
findPatternOccurrencesInExpr(root, pattern) ==
    LET m == patternMatch(pattern, root, <<>>)
        here == IF m.ok THEN <<[path |-> <<>>, bindings |-> m.bindings]>> ELSE <<>>
        below == IF root.type \in {"op", "func"}
                 THEN Flatten([k \in 1..Len(root.args) |->
                          underArg(k, findPatternOccurrencesInExpr(root.args[k], pattern))])
                 ELSE <<>>
    IN  here \o below

RuleNames == {"conj_inv", "conj_add", "conj_mul", "conj_sub", "conj_div", "conj_neg",
              "sqnorm_def", "re_def", "im_def", "i_square"}

DEFAULT_REWRITE_RULES ==
    LET A == VarNode("?a")
        B == VarNode("?b")
    IN  [n \in RuleNames |->
          CASE n = "conj_inv" -> [lhs |-> conj(conj(A)), rhs |-> A]
            [] n = "conj_add" -> [lhs |-> conj(add(A, B)), rhs |-> add(conj(A), conj(B))]
            [] n = "conj_mul" -> [lhs |-> conj(mul(A, B)), rhs |-> mul(conj(A), conj(B))]
            [] n = "conj_sub" -> [lhs |-> conj(sub(A, B)), rhs |-> sub(conj(A), conj(B))]
            [] n = "conj_div" -> [lhs |-> conj(div(A, B)), rhs |-> div(conj(A), conj(B))]
            [] n = "conj_neg" -> [lhs |-> conj(neg(A)), rhs |-> neg(conj(A))]
            [] n = "sqnorm_def" -> [lhs |-> sqnorm(A), rhs |-> mul(A, conj(A))]
            [] n = "re_def" -> [lhs |-> Re(A), rhs |-> div(add(A, conj(A)), ConstNode(2))]
            [] n = "im_def" -> [lhs |-> Im(A), rhs |-> div(sub(A, conj(A)), ConstNode(2))]
            [] n = "i_square" -> [lhs |-> mul(VarNode("i"), VarNode("i")), rhs |-> ConstNode(-1)]]

-----------------------------------------------------------------------------
(* Context: an insertion-ordered map, here the sequence of its entries *)

keys(ctx) == [k \in 1..Len(ctx) |-> ctx[k].name]
has(ctx, name) == \E k \in 1..Len(ctx) : ctx[k].name = name
getFact(ctx, name) ==
    IF has(ctx, name) THEN ctx[CHOOSE k \in 1..Len(ctx) : ctx[k].name = name].fact
    ELSE undefined
\* a set that deletes the key first: an existing key moves to the end
setFact_moved(ctx, name, fact) ==
    Append(SelectSeq(ctx, LAMBDA e : e.name # name),
           [name |-> name, fact |-> deepClone(fact)])
\* Map.set: an existing key keeps its position, a new key goes last
setFact(ctx, name, fact) ==
    IF has(ctx, name)
    THEN [k \in 1..Len(ctx) |->
             IF ctx[k].name = name THEN [name |-> name, fact |-> deepClone(fact)] ELSE ctx[k]]
    ELSE Append(ctx, [name |-> name, fact |-> deepClone(fact)])
\* addFact throws when the name is present; [threw, ctx]
addFact(ctx, name, fact) ==
    IF has(ctx, name) THEN [threw |-> TRUE, ctx |-> ctx]
    ELSE [threw |-> FALSE, ctx |-> setFact(ctx, name, fact)]
clone(ctx) == [k \in 1..Len(ctx) |-> [name |-> ctx[k].name, fact |-> deepClone(ctx[k].fact)]]

-----------------------------------------------------------------------------
(* Prover of src/prover-core.ts.  A command returns [result, state]: result  *)
(* is "ok" (true), "fail" (false) or "throw" (an exception left the call),   *)
(* state is the State after the call.  oracle is what the simplifier (mathjs)*)
(* answers to "does the difference reduce to 0".                             *)

Returned(r, st) == [result |-> r, state |-> st]

cmd_buli(st, cmd) ==
    LET hyp == getFact(st.context, cmd.hypothesis)
    IN  IF hyp = undefined THEN Returned("fail", st)
        ELSE IF hyp.kind # "neq" THEN Returned("fail", st)
        ELSE IF ~(hyp.rhs.type = "const" /\ hyp.rhs.value = 0) THEN Returned("fail", st)
        ELSE IF ~canProveNonZero(hyp.lhs, cmd.component) THEN Returned("fail", st)
        ELSE LET newFact == neq(deepClone(cmd.component), ConstNode(0))
                 added == addFact(st.context, cmd.newName, newFact)
             IN  IF added.threw THEN Returned("throw", st)
                 ELSE Returned("ok", [st EXCEPT !.context = added.ctx])

\* the denominators of the goal that need a proof
neededDenominators(goal) ==
    SelectSeq(collectDenominatorsInExpr(goal.lhs) \o collectDenominatorsInExpr(goal.rhs),
              LAMBDA d : ~isConstantExpr(d))

\* 多能 that looks at the supplied proofs only when a denominator needs one
cmd_duoneng_neededOnly(st, cmd, oracle) ==
    LET goal == st.goal
        needed == neededDenominators(goal)
        supplied == Range(cmd.denomProofs)
        badProof(name) ==
            LET f == getFact(st.context, name)
            IN  \/ f = undefined
                \/ f.kind # "neq"
                \/ ~(f.rhs.type = "const" /\ f.rhs.vtype = "number" /\ f.rhs.value = 0)
        matched(d) == \E name \in supplied : exprEquals(getFact(st.context, name).lhs, d)
    IN  IF goal.kind # "eq" THEN Returned("fail", st)
        ELSE IF needed # <<>> /\ \E name \in supplied : badProof(name)
             THEN Returned("fail", st)
        ELSE IF \E k \in 1..Len(needed) : ~matched(needed[k]) THEN Returned("fail", st)
        ELSE IF oracle THEN Returned("ok", [st EXCEPT !.explicitCompletion = TRUE])
        ELSE Returned("fail", st)

cmd_duoneng(st, cmd, oracle) ==
    LET goal == st.goal
        needed == neededDenominators(goal)
        supplied == Range(cmd.denomProofs)
        badProof(name) ==
            LET f == getFact(st.context, name)
            IN  \/ f = undefined
                \/ f.kind # "neq"
                \/ ~(f.rhs.type = "const" /\ f.rhs.vtype = "number" /\ f.rhs.value = 0)
        matched(d) == \E name \in supplied : exprEquals(getFact(st.context, name).lhs, d)
    IN  IF goal.kind # "eq" THEN Returned("fail", st)
        ELSE IF \E name \in supplied : badProof(name) THEN Returned("fail", st)
        ELSE IF \E k \in 1..Len(needed) : ~matched(needed[k]) THEN Returned("fail", st)
        ELSE IF oracle THEN Returned("ok", [st EXCEPT !.explicitCompletion = TRUE])
        ELSE Returned("fail", st)

\* 反证 that overwrites the hypothesis before it looks at the goal
cmd_fanzheng_partial(st, cmd) ==
    LET h == getFact(st.context, cmd.hypName)
        newEq == eq(deepClone(st.goal.lhs), deepClone(st.goal.rhs))
        written == [st EXCEPT !.context = setFact(st.context, cmd.hypName, newEq)]
    IN  IF h = undefined THEN Returned("fail", st)
        ELSE IF h.kind # "neq" THEN Returned("fail", st)
        ELSE IF st.goal.kind # "neq" THEN Returned("fail", written)
        ELSE Returned("ok", [written EXCEPT !.goal = eq(deepClone(h.lhs), deepClone(h.rhs))])

\* 反证 that reads the hypothesis again after it was overwritten
cmd_fanzheng_stale(st, cmd) ==
    LET h == getFact(st.context, cmd.hypName)
    IN  IF h = undefined THEN Returned("fail", st)
        ELSE IF h.kind # "neq" THEN Returned("fail", st)
        ELSE IF st.goal.kind # "neq" THEN Returned("fail", st)
        ELSE LET newEq == eq(deepClone(st.goal.lhs), deepClone(st.goal.rhs))
                 ctx2 == setFact(st.context, cmd.hypName, newEq)
                 h2 == getFact(ctx2, cmd.hypName)
             IN  Returned("ok", [st EXCEPT !.context = ctx2,
                                           !.goal = eq(deepClone(h2.lhs), deepClone(h2.rhs))])

cmd_fanzheng(st, cmd) ==
    LET h == getFact(st.context, cmd.hypName)
    IN  IF h = undefined THEN Returned("fail", st)
        ELSE IF h.kind # "neq" THEN Returned("fail", st)
        ELSE IF st.goal.kind # "neq" THEN Returned("fail", st)
        ELSE LET newEq == eq(deepClone(st.goal.lhs), deepClone(st.goal.rhs))
             IN  Returned("ok", [st EXCEPT
                     !.context = setFact(st.context, cmd.hypName, newEq),
                     !.goal = eq(deepClone(h.lhs), deepClone(h.rhs))])

\* contextOccurrences that lists all candidates of the left side of the goal
\* before those of the right side
contextOccurrences_bySide(goal, f) ==
    LET occ(side, root, target, repl) ==
            LET ps == findOccurrencesInExpr(root, target)
            IN  [k \in 1..Len(ps) |-> [path |-> <<side>> \o ps[k], replaceWith |-> deepClone(repl)]]
    IN  occ("lhs", goal.lhs, f.lhs, f.rhs) \o occ("lhs", goal.lhs, f.rhs, f.lhs)
        \o occ("rhs", goal.rhs, f.lhs, f.rhs) \o occ("rhs", goal.rhs, f.rhs, f.lhs)

\* the candidates of a rewrite by a context equality f, in the order of the list
contextOccurrences(goal, f) ==
    LET occ(side, root, target, repl) ==
            LET ps == findOccurrencesInExpr(root, target)
            IN  [k \in 1..Len(ps) |-> [path |-> <<side>> \o ps[k], replaceWith |-> deepClone(repl)]]
    IN  occ("lhs", goal.lhs, f.lhs, f.rhs) \o occ("rhs", goal.rhs, f.lhs, f.rhs)
        \o occ("lhs", goal.lhs, f.rhs, f.lhs) \o occ("rhs", goal.rhs, f.rhs, f.lhs)

\* the candidates of a rule that is applied from its lhs to its rhs only
ruleOccurrences_forward(goal, rule) ==
    LET occ(side, root, pat, repl) ==
            LET ms == findPatternOccurrencesInExpr(root, pat)
            IN  [k \in 1..Len(ms) |-> [path |-> <<side>> \o ms[k].path,
                                       replaceWith |-> instantiate(repl, ms[k].bindings)]]
    IN  occ("lhs", goal.lhs, rule.lhs, rule.rhs) \o occ("rhs", goal.rhs, rule.lhs, rule.rhs)

\* the candidates of a rewrite by a registry rule, in the order of the list
ruleOccurrences(goal, rule) ==
    LET occ(side, root, pat, repl) ==
            LET ms == findPatternOccurrencesInExpr(root, pat)
            IN  [k \in 1..Len(ms) |-> [path |-> <<side>> \o ms[k].path,
                                       replaceWith |-> instantiate(repl, ms[k].bindings)]]
    IN  occ("lhs", goal.lhs, rule.lhs, rule.rhs) \o occ("rhs", goal.rhs, rule.lhs, rule.rhs)
        \o occ("lhs", goal.lhs, rule.rhs, rule.lhs) \o occ("rhs", goal.rhs, rule.rhs, rule.lhs)

\* the whole candidate list of 再写 for equalityName
rewriteOccurrences(rewriteRules, st, ruleName) ==
    LET ruleFromContext == getFact(st.context, ruleName)
        isContextEq == ruleFromContext # undefined /\ ruleFromContext.kind = "eq"
        ruleFromRegistry == ruleName \in DOMAIN rewriteRules
    IN  (IF isContextEq THEN contextOccurrences(st.goal, ruleFromContext) ELSE <<>>)
        \o (IF ruleFromRegistry THEN ruleOccurrences(st.goal, rewriteRules[ruleName]) ELSE <<>>)

\* the outcome of 再写 once setAtPathInFact has returned or thrown
rewrittenGoal(st, goal) ==
    IF goal = rootReplaced THEN Returned("throw", st)
    ELSE Returned("ok", [st EXCEPT !.goal = goal])

\* cmd.occurrence = 0 stands for an occurrence that is absent (or 0): both read as 1
cmd_rewrite(rewriteRules, st, cmd) ==
    LET ruleName == cmd.equalityName
        ruleFromContext == getFact(st.context, ruleName)
        isContextEq == ruleFromContext # undefined /\ ruleFromContext.kind = "eq"
        ruleFromRegistry == ruleName \in DOMAIN rewriteRules
        occurrences == rewriteOccurrences(rewriteRules, st, ruleName)
        occurrence == IF cmd.occurrence = 0 THEN 1 ELSE cmd.occurrence
    IN  IF ~isContextEq /\ ~ruleFromRegistry THEN Returned("fail", st)
        ELSE IF \E k \in 1..Len(occurrences) : hasThrown(occurrences[k].replaceWith)
             THEN Returned("throw", st)
        ELSE IF Len(occurrences) < occurrence THEN Returned("fail", st)
        \* occurrences[occurrence - 1] is undefined for a negative occurrence
        ELSE IF occurrence < 1 THEN Returned("throw", st)
        ELSE LET chosen == occurrences[occurrence]
             IN  rewrittenGoal(st, setAtPathInFact(st.goal, chosen.path,
                                                   deepClone(chosen.replaceWith)))

\* 重反 that puts the new fact before the facts of the context
cmd_reverse_first(st, cmd) ==
    LET f == getFact(st.context, cmd.oldName)
    IN  IF f = undefined THEN Returned("fail", st)
        ELSE IF f.kind # "eq" THEN Returned("fail", st)
        ELSE IF has(st.context, cmd.newName) THEN Returned("throw", st)
        ELSE LET newFact == eq(deepClone(f.rhs), deepClone(f.lhs))
             IN  Returned("ok", [st EXCEPT
                     !.context = <<[name |-> cmd.newName, fact |-> newFact]>> \o @])

cmd_reverse(st, cmd) ==
    LET f == getFact(st.context, cmd.oldName)
    IN  IF f = undefined THEN Returned("fail", st)
        ELSE IF f.kind # "eq" THEN Returned("fail", st)
        ELSE LET newFact == eq(deepClone(f.rhs), deepClone(f.lhs))
                 added == addFact(st.context, cmd.newName, newFact)
             IN  IF added.threw THEN Returned("throw", st)
                 ELSE Returned("ok", [st EXCEPT !.context = added.ctx])

cmd_certain(st, cmd, oracle) ==
    LET goal == st.goal
    IN  IF goal.kind # "eq" THEN Returned("fail", st)
        ELSE IF ~isConstantExpr(goal.lhs) \/ ~isConstantExpr(goal.rhs) THEN Returned("fail", st)
        ELSE IF oracle THEN Returned("ok", [st EXCEPT !.explicitCompletion = TRUE])
        ELSE Returned("fail", st)

\* Prover.runCommand
runCommand(st, cmd, oracle) ==
    IF st.explicitCompletion THEN Returned("fail", st)
    ELSE CASE cmd.cmd = "buli" -> cmd_buli(st, cmd)
           [] cmd.cmd = "duoneng" -> cmd_duoneng(st, cmd, oracle)
           [] cmd.cmd = "fanzheng" -> cmd_fanzheng(st, cmd)
           [] cmd.cmd = "rewrite" -> cmd_rewrite(DEFAULT_REWRITE_RULES, st, cmd)
           [] cmd.cmd = "reverse" -> cmd_reverse(st, cmd)
           [] cmd.cmd = "certain" -> cmd_certain(st, cmd, oracle)

\* checkGoalProved that looks at the first fact of the context only
checkGoalProved_firstOnly(st) ==
    IF st.explicitCompletion THEN TRUE
    ELSE IF st.goal.kind = "eq" THEN
        \/ exprEquals(st.goal.lhs, st.goal.rhs)
        \/ \E k \in 1..Len(st.context) :
              LET f == st.context[k].fact
              IN  k = 1 /\ f.kind = "eq" /\ exprEquals(f.lhs, st.goal.lhs)
                        /\ exprEquals(f.rhs, st.goal.rhs)
    ELSE IF st.goal.kind = "neq" THEN
        \E k \in 1..Len(st.context) :
              LET f == st.context[k].fact
              IN  k = 1 /\ f.kind = "neq" /\ exprEquals(f.lhs, st.goal.lhs)
                        /\ exprEquals(f.rhs, st.goal.rhs)
    ELSE FALSE

\* Prover.checkGoalProved
checkGoalProved(st) ==
    IF st.explicitCompletion THEN TRUE
    ELSE IF st.goal.kind = "eq" THEN
        \/ exprEquals(st.goal.lhs, st.goal.rhs)
        \/ \E k \in 1..Len(st.context) :
              LET f == st.context[k].fact
              IN  f.kind = "eq" /\ exprEquals(f.lhs, st.goal.lhs) /\ exprEquals(f.rhs, st.goal.rhs)
    ELSE IF st.goal.kind = "neq" THEN
        \E k \in 1..Len(st.context) :
              LET f == st.context[k].fact
              IN  f.kind = "neq" /\ exprEquals(f.lhs, st.goal.lhs) /\ exprEquals(f.rhs, st.goal.rhs)
    ELSE FALSE

-----------------------------------------------------------------------------
(* Inputs: the expressions, facts and names the operations are called with *)

a == VarNode("a")
b == VarNode("b")
c == VarNode("c")
x == VarNode("x")
zero == ConstNode(0)
one == ConstNode(1)
two == ConstNode(2)

Entry(n, f) == [name |-> n, fact |-> f]

\* the (goal, hypotheses) pairs a run starts from
InitStates ==
    { [goal |-> eq(div(x, x), one),
       context |-> <<Entry("H1", neq(x, zero)), Entry("hd", neq(a, b))>>],
      [goal |-> neq(sub(a, b), zero),
       context |-> <<Entry("hd", neq(a, b)), Entry("product_eq", eq(mul(a, b), c)),
                     Entry("hsum", neq(add(a, b), zero))>>],
      [goal |-> neq(mul(a, b), zero),
       context |-> <<Entry("product_eq", eq(mul(a, b), c)), Entry("c_nonzero", neq(c, zero))>>],
      [goal |-> eq(div(a, div(b, c)), div(a, two)),
       context |-> <<Entry("hbc", neq(div(b, c), zero)), Entry("c_nonzero", neq(c, zero)),
                     Entry("hq", neq(div(mul(a, b), c), zero))>>],
      [goal |-> eq(conj(two), two),
       context |-> <<Entry("hs", neq(x, StrConstNode(0)))>>],
      [goal |-> eq(add(c, mul(a, b)), mul(a, b)),
       context |-> <<Entry("product_eq", eq(mul(a, b), c))>>],
      [goal |-> eq(conj(conj(x)), x),
       context |-> <<Entry("hn", neq(neg(sqnorm(pow(x, two))), zero)),
                     Entry("conj_inv", eq(x, conj(x)))>>],
      [goal |-> eq(mul(VarNode("i"), VarNode("i")), ConstNode(-1)),
       context |-> <<>>],
      [goal |-> eq(mul(a, conj(a)), mul(a, conj(b))),
       context |-> <<>>] }

NewNames == {"n1", "n2"}
Components == {a, mul(a, b), x}
UsedRuleNames == {"conj_inv", "sqnorm_def", "i_square"}
Occurrences == {-1, 0, 1, 2}

\* the names a command may refer to: those of the context and one that is absent
RefNames(ctx) == Range(keys(ctx)) \cup {"missing"}

DenomProofChoices(ctx) ==
    {<<>>} \cup {<<n>> : n \in RefNames(ctx)}
           \cup {<<n, m>> : n \in Range(keys(ctx)) \cap {"hbc", "H1"},
                            m \in Range(keys(ctx)) \cap {"c_nonzero", "hd", "n1"}}

-----------------------------------------------------------------------------
(* Core specification: Prover.runCommand called on one State *)

CoreIdle ==
    /\ state = [goal |-> eq(zero, zero), context |-> <<>>, explicitCompletion |-> FALSE]
    /\ last = [cmd |-> [cmd |-> "none"], result |-> "none", pre |-> state, steps |-> 0]

TreeIdle ==
    /\ sessions = <<>>
    /\ treeLast = [op |-> "none"]

FrameIdle ==
    /\ globalContext = <<>>
    /\ frames = <<>>
    /\ commandHistory = <<>>
    /\ frameLast = [op |-> "none"]

Init ==
    /\ state \in {[goal |-> i.goal, context |-> i.context, explicitCompletion |-> FALSE] :
                     i \in InitStates}
    /\ last = [cmd |-> [cmd |-> "none"], result |-> "none", pre |-> state, steps |-> 0]
    /\ TreeIdle
    /\ FrameIdle

\* what last keeps of a call: the whole command when it succeeded, only its
\* kind when it was rejected (a rejected command leaves no trace in the program)
Kept(cmd, result) == IF result = "ok" THEN cmd ELSE [cmd |-> cmd.cmd]

\* the call Prover.runCommand(state, cmd) has returned r
Ran(cmd, r) ==
    /\ r.state.goal = state.goal \/ factSize(r.state.goal) <= MaxGoalSize
    /\ r.result = "ok" => last.steps < MaxSteps
    /\ state' = r.state
    /\ last' = [cmd |-> Kept(cmd, r.result), result |-> r.result, pre |-> state,
                steps |-> IF r.result = "ok" THEN last.steps + 1 ELSE last.steps]
    /\ UNCHANGED <<treeVars, frameVars>>

\* the commands a caller issues in a given State
BuliCommands(st) ==
    {[cmd |-> "buli", newName |-> n, component |-> comp, hypothesis |-> h] :
        n \in NewNames, comp \in Components, h \in RefNames(st.context)}
DuonengCommands(st) ==
    {[cmd |-> "duoneng", denomProofs |-> ps] : ps \in DenomProofChoices(st.context)}
FanzhengCommands(st) ==
    {[cmd |-> "fanzheng", hypName |-> h] : h \in RefNames(st.context)}
RewriteCommands(st) ==
    {[cmd |-> "rewrite", occurrence |-> o, equalityName |-> e] :
        o \in Occurrences, e \in RefNames(st.context) \cup UsedRuleNames}
ReverseCommands(st) ==
    {[cmd |-> "reverse", oldName |-> o, newName |-> n] :
        o \in RefNames(st.context), n \in NewNames}
CertainCommands == {[cmd |-> "certain"]}
Commands(st) ==
    BuliCommands(st) \cup DuonengCommands(st) \cup FanzhengCommands(st)
        \cup RewriteCommands(st) \cup ReverseCommands(st) \cup CertainCommands

\* the simplifier is consulted by 多能 and 确定 only
OracleAnswers(cmd) == IF cmd.cmd \in {"duoneng", "certain"} THEN BOOLEAN ELSE {FALSE}

\* one call of Prover.runCommand(state, cmd)
RunCommand ==
    \E cmd \in Commands(state) : \E oracle \in OracleAnswers(cmd) :
        Ran(cmd, runCommand(state, cmd, oracle))

Next == RunCommand

Spec == Init /\ [][Next]_vars

-----------------------------------------------------------------------------
(* ProofSession of src/proof-session.ts.  sessions[i] is the session created *)
(* i-th; parent is 0 for a root session; children and childProofs refer to   *)
(* sessions by index.                                                        *)

\* new ProofSession(goal, {hypotheses}, parent)
NewSession(goal, hypotheses, parent) ==
    [state |-> [goal |-> goal, context |-> clone(hypotheses), explicitCompletion |-> FALSE],
     originalGoal |-> deepClone(goal),
     parent |-> parent,
     children |-> {},
     executedCommands |-> <<>>,
     childProofs |-> <<>>]

getOriginalGoal(sess) == deepClone(sess.originalGoal)
isComplete(sess) == checkGoalProved(sess.state)
hasActiveChildren(sess) == sess.children # {}

\* { ...inherited, ...own }: an inherited name keeps its place and takes the
\* overriding fact, the other names of own follow in their order
mergeHypotheses(inherited, own) ==
    [k \in 1..Len(inherited) |->
        IF has(own, inherited[k].name)
        THEN Entry(inherited[k].name, getFact(own, inherited[k].name))
        ELSE inherited[k]]
    \o SelectSeq(own, LAMBDA e : ~has(inherited, e.name))

\* the session after prover.runCommand returned r: the command is recorded,
\* unless an exception left the call
recordCommand(ss, s, cmd, r) ==
    IF r.result = "throw" THEN [result |-> "throw", sessions |-> ss]
    ELSE [result |-> r.result,
          sessions |-> [ss EXCEPT
              ![s].state = r.state,
              ![s].executedCommands =
                  Append(@, [command |-> cmd, success |-> r.result = "ok"])]]

\* ProofSession.runCommand: [result, sessions]
sessionRunCommand(ss, s, cmd, oracle) ==
    IF ss[s].state.explicitCompletion THEN [result |-> "fail", sessions |-> ss]
    ELSE recordCommand(ss, s, cmd, runCommand(ss[s].state, cmd, oracle))

\* ProofSession.startNestedProof
startNestedProof(ss, p, goal, hypotheses) ==
    LET merged == mergeHypotheses(ss[p].state.context, hypotheses)
        child == Len(ss) + 1
    IN  Append([ss EXCEPT ![p].children = @ \cup {child}], NewSession(goal, merged, p))

\* finalizeNestedProof that leaves the child among the active children
finalizeNestedProof_kept(ss, p, childSession, factName) ==
    IF childSession \notin ss[p].children THEN [result |-> "fail", sessions |-> ss]
    ELSE IF ~isComplete(ss[childSession]) THEN [result |-> "fail", sessions |-> ss]
    ELSE IF has(ss[p].state.context, factName) THEN [result |-> "fail", sessions |-> ss]
    ELSE LET provenGoal == getOriginalGoal(ss[childSession])
         IN  [result |-> "ok",
              sessions |-> [ss EXCEPT
                  ![p].state.context = addFact(@, factName, provenGoal).ctx,
                  ![p].childProofs = Append(@, [child |-> childSession, factName |-> factName])]]

\* ProofSession.finalizeNestedProof: [result, sessions]
finalizeNestedProof(ss, p, childSession, factName) ==
    IF childSession \notin ss[p].children THEN [result |-> "fail", sessions |-> ss]
    ELSE IF ~isComplete(ss[childSession]) THEN [result |-> "fail", sessions |-> ss]
    ELSE IF has(ss[p].state.context, factName) THEN [result |-> "fail", sessions |-> ss]
    ELSE LET provenGoal == getOriginalGoal(ss[childSession])
         IN  [result |-> "ok",
              sessions |-> [ss EXCEPT
                  ![p].state.context = addFact(@, factName, provenGoal).ctx,
                  ![p].childProofs = Append(@, [child |-> childSession, factName |-> factName]),
                  ![p].children = @ \ {childSession}]]

\* ProofSession.cleanupCompletedChildren: [cleaned, sessions]
cleanupCompletedChildren(ss, p) ==
    LET gone == {ch \in ss[p].children : isComplete(ss[ch]) /\ ~hasActiveChildren(ss[ch])}
    IN  [cleaned |-> Cardinality(gone),
         sessions |-> [ss EXCEPT ![p].children = @ \ gone]]

product_eq == Entry("product_eq", eq(mul(a, b), c))
c_nonzero == Entry("c_nonzero", neq(c, zero))
H1 == Entry("H1", neq(x, zero))

\* the goal and the hypotheses a root session is constructed with
RootSessions ==
    { [goal |-> neq(mul(a, b), zero), hypotheses |-> <<product_eq, c_nonzero, H1>>],
      [goal |-> eq(div(x, x), one), hypotheses |-> <<product_eq, c_nonzero, H1>>] }

NestedGoals == {neq(mul(a, b), zero), eq(div(x, x), one)}
NestedHypotheses == {<<>>, <<Entry("c_nonzero", neq(mul(a, b), zero)), Entry("late", neq(c, zero))>>}
FactNames == {"product_nonzero", "c_nonzero"}

SessionCommands ==
    { [cmd |-> "rewrite", occurrence |-> 0, equalityName |-> "product_eq"],
      [cmd |-> "fanzheng", hypName |-> "c_nonzero"],
      [cmd |-> "buli", newName |-> "a_nonzero", component |-> a, hypothesis |-> "product_nonzero"],
      [cmd |-> "duoneng", denomProofs |-> <<"H1">>] }

executed(ss) == SumSeq([k \in 1..Len(ss) |-> Len(ss[k].executedCommands)])

InitTree ==
    /\ \E r \in RootSessions : sessions = <<NewSession(r.goal, r.hypotheses, 0)>>
    /\ treeLast = [op |-> "new"]
    /\ CoreIdle
    /\ FrameIdle

SessionRan(s, cmd, r) ==
    /\ r.sessions # sessions => executed(sessions) < MaxExecuted
    /\ sessions' = r.sessions
    /\ treeLast' = IF r.sessions = sessions /\ r.result = "fail" THEN treeLast
                   ELSE [op |-> "runCommand", session |-> s, cmd |-> Kept(cmd, r.result),
                         result |-> r.result, pre |-> sessions]
    /\ UNCHANGED <<coreVars, frameVars>>

SessionRunCommand ==
    \E s \in 1..Len(sessions) : \E cmd \in SessionCommands : \E oracle \in OracleAnswers(cmd) :
        SessionRan(s, cmd, sessionRunCommand(sessions, s, cmd, oracle))

StartNestedProof ==
    \E p \in 1..Len(sessions) : \E goal \in NestedGoals : \E hyps \in NestedHypotheses :
        /\ Len(sessions) < MaxSessions
        /\ sessions' = startNestedProof(sessions, p, goal, hyps)
        /\ treeLast' = [op |-> "startNestedProof", session |-> p, pre |-> sessions]
        /\ UNCHANGED <<coreVars, frameVars>>

FinalizeNestedProof ==
    \E p \in 1..Len(sessions) : \E ch \in 1..Len(sessions) : \E factName \in FactNames :
        LET r == finalizeNestedProof(sessions, p, ch, factName)
        IN  /\ sessions' = r.sessions
            /\ treeLast' = IF r.result = "fail" THEN treeLast
                           ELSE [op |-> "finalizeNestedProof", session |-> p, child |-> ch,
                                 factName |-> factName, result |-> r.result, pre |-> sessions]
            /\ UNCHANGED <<coreVars, frameVars>>

CleanupCompletedChildren ==
    \E p \in 1..Len(sessions) :
        LET r == cleanupCompletedChildren(sessions, p)
        IN  /\ sessions' = r.sessions
            /\ treeLast' = IF r.cleaned = 0 THEN treeLast
                           ELSE [op |-> "cleanupCompletedChildren", session |-> p,
                                 cleaned |-> r.cleaned, pre |-> sessions]
            /\ UNCHANGED <<coreVars, frameVars>>

NextTree ==
    \/ SessionRunCommand
    \/ StartNestedProof
    \/ FinalizeNestedProof
    \/ CleanupCompletedChildren

SpecTree == InitTree /\ [][NextTree]_vars

-----------------------------------------------------------------------------
(* BatchModeValidator of src/unnamed/part_002.  A file is [readable, lines]: *)
(* readable is FALSE when readFileSync throws; lines is the sequence of its  *)
(* lines (none of them blank), each the object JSON.parse returns for it, or *)
(* garbage when JSON.parse throws.  processBatch returns [evaluation_score,  *)
(* errors, sessions]: the BatchResult and the session it ran the commands on *)
(* (<<>> when it created none).                                              *)

garbage == [json |-> "invalid"]
File(lines) == [readable |-> TRUE, lines |-> lines]
unreadable == [readable |-> FALSE, lines |-> <<>>]

BatchError(line, type, message) == [line |-> line, type |-> type, message |-> message]
BatchResult(errors, proved, ss) ==
    [evaluation_score |-> [error_count |-> Len(errors), proved |-> proved],
     errors |-> errors, sessions |-> ss]

\* BatchModeValidator.parseJsonl: [data, errors]
parseJsonl(lines) ==
    LET bad == SelectSeq([k \in 1..Len(lines) |-> k], LAMBDA k : lines[k] = garbage)
    IN  [data |-> SelectSeq(lines, LAMBDA l : l # garbage),
         errors |-> [j \in 1..Len(bad) |->
                        BatchError(bad[j], "parse_error", "JSON parse error")]]

\* BatchModeValidator.validateBatchInput
validateBatchInput(data) ==
    (IF "hypotheses" \notin DOMAIN data
     THEN <<BatchError(1, "validation_error", "missing hypotheses")>> ELSE <<>>)
    \o (IF "goal" \notin DOMAIN data
        THEN <<BatchError(1, "validation_error", "missing goal")>>
        ELSE (IF "kind" \notin DOMAIN data.goal \/ data.goal.kind \notin {"eq", "neq"}
              THEN <<BatchError(1, "validation_error", "goal kind")>> ELSE <<>>)
             \o (IF ~({"lhs", "rhs"} \subseteq DOMAIN data.goal)
                 THEN <<BatchError(1, "validation_error", "goal lhs and rhs")>> ELSE <<>>))

\* BatchModeValidator.validateBatchCommand
validateBatchCommand(data, lineNumber) ==
    IF "command" \notin DOMAIN data
    THEN <<BatchError(lineNumber, "validation_error", "missing command")>>
    ELSE (IF "cmd" \notin DOMAIN data.command
          THEN <<BatchError(lineNumber, "validation_error", "missing cmd")>> ELSE <<>>)
         \o (IF "cmd" \notin DOMAIN data.command
                \/ data.command.cmd \notin {"duoneng", "buli", "fanzheng", "rewrite",
                                            "reverse", "certain"}
             THEN <<BatchError(lineNumber, "validation_error", "invalid command")>>
             ELSE <<>>)

\* the exception caught at the end of processBatch
fileProcessingError(errors, ss) ==
    BatchResult(Append(errors, BatchError(1, "parse_error", "File processing error")), 0, ss)

\* processBatch from its final check on; n is the number of proof commands
completionChecked(n, ss, errors) ==
    IF isComplete(ss[1]) THEN BatchResult(errors, 1, ss)
    ELSE BatchResult(Append(errors, BatchError(n, "validation_error",
                                               "Proof sequence did not complete the goal")),
                     0, ss)

\* the execution loop of processBatch from command i on; r is what
\* session.runCommand returned for command i
RECURSIVE executeFrom(_, _, _, _, _)
commandExecuted(cmds, oracles, i, ss, errors, r) ==
    IF r.result = "throw" THEN fileProcessingError(errors, ss)
    ELSE IF isComplete(r.sessions[1])
    THEN completionChecked(Len(cmds), r.sessions,
             IF r.result = "ok" THEN errors
             ELSE Append(errors, BatchError(i, "command_error", "Command failed to execute")))
    ELSE executeFrom(cmds, oracles, i + 1, r.sessions,
             IF r.result = "ok" THEN errors
             ELSE Append(errors, BatchError(i, "command_error", "Command failed to execute")))
executeFrom(cmds, oracles, i, ss, errors) ==
    IF i > Len(cmds) THEN completionChecked(Len(cmds), ss, errors)
    ELSE commandExecuted(cmds, oracles, i, ss, errors,
             sessionRunCommand(ss, 1, cmds[i].command, oracles[i]))

\* processBatch once the input file is validated; errors are those found so far
proofRead(batchInput, proofFile, oracles, errors) ==
    IF ~proofFile.readable THEN fileProcessingError(errors, <<>>)
    ELSE LET proof == parseJsonl(proofFile.lines)
             found == errors \o proof.errors
                      \o Flatten([i \in 1..Len(proof.data) |->
                                     validateBatchCommand(proof.data[i], i)])
         IN  IF found # <<>> THEN BatchResult(found, 0, <<>>)
             ELSE executeFrom(proof.data, oracles, 1,
                      <<NewSession(batchInput.goal, batchInput.hypotheses, 0)>>, found)

\* BatchModeValidator.processBatch; oracles[i] is what the simplifier answers
\* while command i runs
processBatch(inputFile, proofFile, oracles) ==
    IF ~inputFile.readable THEN fileProcessingError(<<>>, <<>>)
    ELSE LET input == parseJsonl(inputFile.lines)
         IN  IF input.data = <<>>
             THEN BatchResult(Append(input.errors,
                      BatchError(1, "validation_error", "Input file is empty")), 0, <<>>)
             ELSE LET errors == input.errors
                          \o (IF Len(input.data) > 1
                              THEN <<BatchError(Len(input.data), "validation_error",
                                                "exactly one JSON object")>>
                              ELSE <<>>)
                      inputValidationErrors == validateBatchInput(input.data[1])
                  IN  IF inputValidationErrors # <<>>
                      THEN BatchResult(errors \o inputValidationErrors, 0, <<>>)
                      ELSE proofRead(input.data[1], proofFile, oracles, errors)

\* the number of lines of a proof file
MaxProofLines == 2

\* the objects of input files: four that validate (two of them with a goal
\* that is proved before any command), two that do not
BatchInputs ==
    {[goal |-> r.goal, hypotheses |-> r.hypotheses] : r \in RootSessions}
        \cup {[goal |-> eq(x, x), hypotheses |-> <<>>],
              [goal |-> neq(c, zero), hypotheses |-> <<product_eq, c_nonzero>>]}
InputLines ==
    BatchInputs \cup {garbage, [hypotheses |-> <<>>],
                      [goal |-> [kind |-> "le", lhs |-> x, rhs |-> x], hypotheses |-> <<>>]}
InputFiles ==
    {unreadable, File(<<>>)} \cup {File(<<l>>) : l \in InputLines}
        \cup {File(<<l, m>>) : l \in InputLines, m \in {garbage, [goal |-> eq(x, x),
                                                                  hypotheses |-> <<>>]}}

\* the commands of proof files: those of the sessions, and one whose newName
\* is in the context
BatchCommands ==
    SessionCommands \cup {[cmd |-> "reverse", oldName |-> "product_eq", newName |-> "c_nonzero"]}
ProofLines ==
    {[command |-> cmd] : cmd \in BatchCommands}
        \cup {garbage, [comment |-> "no command"], [command |-> [name |-> "certain"]],
              [command |-> [cmd |-> "bogus"]]}
ProofFiles ==
    {unreadable} \cup {File(ls) : ls \in UNION {[1..n -> ProofLines] : n \in 0..MaxProofLines}}

\* the answers of the simplifier during the commands of a proof file
BatchOracles(proofFile) ==
    {o \in [1..Len(proofFile.lines) -> BOOLEAN] :
        \A k \in 1..Len(proofFile.lines) :
            LET l == proofFile.lines[k]
            IN  o[k] => /\ "command" \in DOMAIN l
                        /\ "cmd" \in DOMAIN l.command
                        /\ l.command.cmd \in {"duoneng", "certain"}}

\* no validator has run
InitBatch ==
    /\ CoreIdle
    /\ TreeIdle
    /\ FrameIdle

\* one run of the validator: processBatch(inputFilePath, proofFilePath);
\* treeLast keeps the files and the BatchResult, sessions the session it used
ProcessBatch ==
    \E inputFile \in InputFiles : \E proofFile \in ProofFiles :
    \E oracles \in BatchOracles(proofFile) :
        /\ treeLast.op = "none"
        /\ treeLast' = [op |-> "processBatch", inputFile |-> inputFile,
                        proofFile |-> proofFile, oracles |-> oracles,
                        result |-> processBatch(inputFile, proofFile, oracles)]
        /\ sessions' = treeLast'.result.sessions
        /\ UNCHANGED <<coreVars, frameVars>>

NextBatch == ProcessBatch

SpecBatch == InitBatch /\ [][NextBatch]_vars

-----------------------------------------------------------------------------
(* Prover of src/example_contradiction.ts, the one the frame API runs.  It   *)
(* receives a fresh object {goal: frame.goal, context: frame.context}: what  *)
(* it writes into the goal object or into the context reaches the frame, an  *)
(* assignment to state.goal does not.  A command returns [result, goal,      *)
(* context], goal and context being those of the frame after the call.       *)

Outcome(r, goal, ctx) == [result |-> r, goal |-> goal, context |-> ctx]

legacy_cmd_buli(st, cmd) ==
    LET hyp == getFact(st.context, cmd.hypothesis)
    IN  IF hyp = undefined THEN Outcome("fail", st.goal, st.context)
        ELSE IF hyp.kind # "neq" THEN Outcome("fail", st.goal, st.context)
        ELSE IF findOccurrencesInExpr(hyp.lhs, cmd.component) = <<>>
             THEN Outcome("fail", st.goal, st.context)
        ELSE LET newFact == neq(deepClone(cmd.component), deepClone(hyp.rhs))
                 added == addFact(st.context, cmd.newName, newFact)
             IN  IF added.threw THEN Outcome("throw", st.goal, st.context)
                 ELSE Outcome("ok", st.goal, added.ctx)

\* the checks of 多能 are those of prover-core; success leaves no mark
legacy_cmd_duoneng(st, cmd, oracle) ==
    LET needed == neededDenominators(st.goal)
        supplied == Range(cmd.denomProofs)
        badProof(name) ==
            LET f == getFact(st.context, name)
            IN  \/ f = undefined
                \/ f.kind # "neq"
                \/ ~(f.rhs.type = "const" /\ f.rhs.vtype = "number" /\ f.rhs.value = 0)
        matched(d) == \E name \in supplied : exprEquals(getFact(st.context, name).lhs, d)
    IN  IF st.goal.kind # "eq" THEN Outcome("fail", st.goal, st.context)
        ELSE IF \E name \in supplied : badProof(name) THEN Outcome("fail", st.goal, st.context)
        ELSE IF \E k \in 1..Len(needed) : ~matched(needed[k])
             THEN Outcome("fail", st.goal, st.context)
        ELSE Outcome(IF oracle THEN "ok" ELSE "fail", st.goal, st.context)

\* state.goal = {...} replaces the property of the object built in addCommand
legacy_cmd_fanzheng(st, cmd) ==
    LET h == getFact(st.context, cmd.hypName)
    IN  IF h = undefined THEN Outcome("fail", st.goal, st.context)
        ELSE IF h.kind # "neq" THEN Outcome("fail", st.goal, st.context)
        ELSE IF st.goal.kind # "neq" THEN Outcome("fail", st.goal, st.context)
        ELSE LET newEq == eq(deepClone(st.goal.lhs), deepClone(st.goal.rhs))
             IN  Outcome("ok", st.goal, setFact(st.context, cmd.hypName, newEq))

\* setAtPathInFact writes into the goal object, which is the frame's
legacy_rewritten(st, r) == Outcome(r.result, r.state.goal, st.context)
legacy_cmd_rewrite(rewriteRules, st, cmd) ==
    legacy_rewritten(st, cmd_rewrite(rewriteRules,
        [goal |-> st.goal, context |-> st.context, explicitCompletion |-> FALSE], cmd))

legacy_cmd_reverse(st, cmd) ==
    LET f == getFact(st.context, cmd.oldName)
    IN  IF f = undefined THEN Outcome("fail", st.goal, st.context)
        ELSE IF f.kind # "eq" THEN Outcome("fail", st.goal, st.context)
        ELSE LET newFact == eq(deepClone(f.rhs), deepClone(f.lhs))
                 added == addFact(st.context, cmd.newName, newFact)
             IN  IF added.threw THEN Outcome("throw", st.goal, st.context)
                 ELSE Outcome("ok", st.goal, added.ctx)

legacy_cmd_certain(st, cmd, oracle) ==
    IF st.goal.kind # "eq" THEN Outcome("fail", st.goal, st.context)
    ELSE IF ~isConstantExpr(st.goal.lhs) \/ ~isConstantExpr(st.goal.rhs)
         THEN Outcome("fail", st.goal, st.context)
    ELSE Outcome(IF oracle THEN "ok" ELSE "fail", st.goal, st.context)

\* Prover.runSingleCommandOnState
runSingleCommandOnState(rewriteRules, st, cmd, oracle) ==
    CASE cmd.cmd = "buli" -> legacy_cmd_buli(st, cmd)
      [] cmd.cmd = "duoneng" -> legacy_cmd_duoneng(st, cmd, oracle)
      [] cmd.cmd = "fanzheng" -> legacy_cmd_fanzheng(st, cmd)
      [] cmd.cmd = "rewrite" -> legacy_cmd_rewrite(rewriteRules, st, cmd)
      [] cmd.cmd = "reverse" -> legacy_cmd_reverse(st, cmd)
      [] cmd.cmd = "certain" -> legacy_cmd_certain(st, cmd, oracle)

\* Prover._checkGoalProved with prover.context = ctx
legacy_checkGoalProved(ctx, goal) ==
    IF goal.kind = "eq"
    THEN \/ exprEquals(goal.lhs, goal.rhs)
         \/ \E k \in 1..Len(ctx) :
               /\ ctx[k].fact.kind = "eq"
               /\ exprEquals(ctx[k].fact.lhs, goal.lhs)
               /\ exprEquals(ctx[k].fact.rhs, goal.rhs)
    ELSE IF goal.kind = "neq"
    THEN \E k \in 1..Len(ctx) :
               /\ ctx[k].fact.kind = "neq"
               /\ exprEquals(ctx[k].fact.lhs, goal.lhs)
               /\ exprEquals(ctx[k].fact.rhs, goal.rhs)
    ELSE FALSE

-----------------------------------------------------------------------------
(* ProofSession of src/example_contradiction.ts (frames).  frames[k] is the  *)
(* frame "frame_k"; a frame id is its number, parentFrameId 0 is null.  An   *)
(* operation returns [result, message, globalContext, frames,                *)
(* commandHistory]: what it answered and the session after it.               *)

null == [kind |-> "null"]
\* deepClone of a Command
deepCloneCommand(cmd) ==
    IF cmd.cmd = "buli" THEN [cmd EXCEPT !.component = deepCloneExpr(@)] ELSE cmd
Session(g, fs, h) == [globalContext |-> g, frames |-> fs, commandHistory |-> h]
Answer(r, m, sn) ==
    [result |-> r, message |-> m, globalContext |-> sn.globalContext,
     frames |-> sn.frames, commandHistory |-> sn.commandHistory]

frameExists(sn, id) == id \in 1..Len(sn.frames)

\* ProofSession.addGlobalFact
addGlobalFact(sn, name, fact, overwrite) ==
    IF ~overwrite /\ has(sn.globalContext, name)
    THEN Answer("fail", "global fact already present", sn)
    ELSE Answer("ok", "", [sn EXCEPT !.globalContext = setFact(@, name, fact)])

\* the loop of seedGlobalContext over the facts that are left, with res what
\* addGlobalFact answered for the first of them
RECURSIVE seedGlobalContext(_, _, _)
seedingContinued(initialFacts, overwrite, res) ==
    IF res.result # "ok" THEN [res EXCEPT !.message = "seeding failed"]
    ELSE seedGlobalContext(Session(res.globalContext, res.frames, res.commandHistory),
                           Tail(initialFacts), overwrite)

\* a seeding that checks every name of the list before it adds the first fact
seedGlobalContext_atomic(sn, initialFacts, overwrite) ==
    IF initialFacts = <<>> THEN Answer("ok", "", sn)
    ELSE IF ~overwrite /\ \E k \in 1..Len(initialFacts) :
                             has(sn.globalContext, initialFacts[k].name)
    THEN Answer("fail", "seeding failed", sn)
    ELSE seedingContinued(initialFacts, overwrite,
                          addGlobalFact(sn, initialFacts[1].name, initialFacts[1].fact,
                                        overwrite))

\* ProofSession.seedGlobalContext
seedGlobalContext(sn, initialFacts, overwrite) ==
    IF initialFacts = <<>> THEN Answer("ok", "", sn)
    ELSE seedingContinued(initialFacts, overwrite,
                          addGlobalFact(sn, initialFacts[1].name, initialFacts[1].fact,
                                        overwrite))

\* ProofSession.startHave
startHave(sn, name, goal, parentFrameId) ==
    LET id == Len(sn.frames) + 1
        parentCtx == IF parentFrameId # 0 /\ frameExists(sn, parentFrameId)
                     THEN sn.frames[parentFrameId].context
                     ELSE clone(sn.globalContext)
        frame == [id |-> id, name |-> name, goal |-> deepClone(goal),
                  context |-> clone(parentCtx), commands |-> <<>>, completed |-> FALSE,
                  parentFrameId |-> parentFrameId]
    IN  Answer("ok", "", [sn EXCEPT
            !.frames = Append(@, frame),
            !.commandHistory = Append(@, [kind |-> "start_frame", frameId |-> id,
                frameName |-> name, parentFrameId |-> parentFrameId, goal |-> deepClone(goal)])])

\* the snapshot addCommand takes before it runs cmd: [ok, message, resolved]
snapshot(rewriteRules, frame, cmd) ==
    LET preGoal == deepClone(frame.goal)
        named(n) == getFact(frame.context, n)
    IN  CASE cmd.cmd = "buli" ->
               IF named(cmd.hypothesis) = undefined
               THEN [ok |-> FALSE, message |-> "hypothesis not found"]
               ELSE [ok |-> TRUE, resolved |->
                       [preGoal |-> preGoal, newName |-> cmd.newName,
                        component |-> deepClone(cmd.component),
                        hypothesisName |-> cmd.hypothesis,
                        hypothesisFact |-> deepClone(named(cmd.hypothesis))]]
          [] cmd.cmd = "fanzheng" ->
               IF named(cmd.hypName) = undefined
               THEN [ok |-> FALSE, message |-> "hypothesis not found"]
               ELSE [ok |-> TRUE, resolved |->
                       [preGoal |-> preGoal, hypName |-> cmd.hypName,
                        hypFactBefore |-> deepClone(named(cmd.hypName)),
                        goalBefore |-> deepClone(frame.goal)]]
          [] cmd.cmd = "duoneng" ->
               [ok |-> TRUE, resolved |->
                   [preGoal |-> preGoal,
                    denomProofs |-> [k \in 1..Len(cmd.denomProofs) |->
                        [name |-> cmd.denomProofs[k],
                         fact |-> IF named(cmd.denomProofs[k]) # undefined
                                  THEN deepClone(named(cmd.denomProofs[k])) ELSE null]]]]
          [] cmd.cmd = "rewrite" ->
               LET f == named(cmd.equalityName)
               IN  [ok |-> TRUE, resolved |->
                       IF f # undefined /\ f.kind = "eq"
                       THEN [preGoal |-> preGoal, equalityName |-> cmd.equalityName,
                             equalitySnapshot |-> deepClone(f)]
                       ELSE IF cmd.equalityName \in DOMAIN rewriteRules
                       THEN [preGoal |-> preGoal, equalityName |-> cmd.equalityName,
                             rewriteRule |-> rewriteRules[cmd.equalityName]]
                       ELSE [preGoal |-> preGoal, equalityName |-> cmd.equalityName]]
          [] cmd.cmd = "reverse" ->
               IF named(cmd.oldName) = undefined
               THEN [ok |-> FALSE, message |-> "old equality not found"]
               ELSE [ok |-> TRUE, resolved |->
                       [preGoal |-> preGoal, oldName |-> cmd.oldName,
                        oldFact |-> deepClone(named(cmd.oldName)), newName |-> cmd.newName]]
          [] cmd.cmd = "certain" ->
               [ok |-> TRUE, resolved |->
                   [preGoal |-> preGoal, goalBefore |-> deepClone(frame.goal)]]

\* commandRan for a frame whose context object is also its parent's
commandRan_shared(sn, frameId, cmd, resolved, out) ==
    IF out.result = "throw" THEN Answer("throw", "", sn)
    ELSE IF out.result = "fail" THEN Answer("fail", "command failed", sn)
    ELSE Answer("ok", "", [sn EXCEPT
            !.frames = [k \in 1..Len(sn.frames) |->
                IF k = frameId
                THEN [sn.frames[k] EXCEPT !.goal = out.goal, !.context = out.context,
                                          !.commands = Append(@, deepCloneCommand(cmd))]
                ELSE IF k = sn.frames[frameId].parentFrameId
                THEN [sn.frames[k] EXCEPT !.context = out.context]
                ELSE sn.frames[k]],
            !.commandHistory = Append(@, [kind |-> "cmd", frameId |-> frameId,
                                          cmd |-> deepCloneCommand(cmd), resolved |-> resolved])])

\* commandRan that records the referenced hypothesis of a 反证 as it is after
\* the command has run
commandRan_lateSnapshot(sn, frameId, cmd, resolved, out) ==
    IF out.result = "throw" THEN Answer("throw", "", sn)
    ELSE IF out.result = "fail" THEN Answer("fail", "command failed", sn)
    ELSE Answer("ok", "", [sn EXCEPT
            !.frames[frameId].goal = out.goal,
            !.frames[frameId].context = out.context,
            !.frames[frameId].commands = Append(@, deepCloneCommand(cmd)),
            !.commandHistory = Append(@, [kind |-> "cmd", frameId |-> frameId,
                cmd |-> deepCloneCommand(cmd),
                resolved |-> IF cmd.cmd = "fanzheng"
                             THEN [resolved EXCEPT !.hypFactBefore =
                                      deepClone(getFact(out.context, cmd.hypName))]
                             ELSE resolved])])

\* addCommand after the runner returned out for a command whose snapshot is resolved
commandRan(sn, frameId, cmd, resolved, out) ==
    IF out.result = "throw" THEN Answer("throw", "", sn)
    ELSE IF out.result = "fail" THEN Answer("fail", "command failed", sn)
    ELSE Answer("ok", "", [sn EXCEPT
            !.frames[frameId].goal = out.goal,
            !.frames[frameId].context = out.context,
            !.frames[frameId].commands = Append(@, deepCloneCommand(cmd)),
            !.commandHistory = Append(@, [kind |-> "cmd", frameId |-> frameId,
                                          cmd |-> deepCloneCommand(cmd), resolved |-> resolved])])

snapshotTaken(rewriteRules, sn, frameId, cmd, oracle, snap) ==
    IF ~snap.ok THEN Answer("fail", snap.message, sn)
    ELSE commandRan(sn, frameId, cmd, snap.resolved,
             runSingleCommandOnState(rewriteRules,
                 [goal |-> sn.frames[frameId].goal, context |-> sn.frames[frameId].context],
                 cmd, oracle))

\* addCommand that does not look at frame.completed
addCommand_reopened(rewriteRules, sn, frameId, cmd, oracle) ==
    IF ~frameExists(sn, frameId) THEN Answer("fail", "frame not found", sn)
    ELSE snapshotTaken(rewriteRules, sn, frameId, cmd, oracle,
                       snapshot(rewriteRules, sn.frames[frameId], cmd))

\* ProofSession.addCommand
addCommand(rewriteRules, sn, frameId, cmd, oracle) ==
    IF ~frameExists(sn, frameId) THEN Answer("fail", "frame not found", sn)
    ELSE IF sn.frames[frameId].completed THEN Answer("fail", "frame already completed", sn)
    ELSE snapshotTaken(rewriteRules, sn, frameId, cmd, oracle,
                       snapshot(rewriteRules, sn.frames[frameId], cmd))

\* propagate that also hands the proven fact to the frames that were started
\* from the same context and do not have the name
propagate_siblings(sn, frame) ==
    LET shared(fs) ==
            [k \in 1..Len(fs) |->
                IF k # frame.id /\ fs[k].parentFrameId = frame.parentFrameId
                   /\ ~has(fs[k].context, frame.name)
                THEN [fs[k] EXCEPT !.context = addFact(@, frame.name, deepClone(frame.goal)).ctx]
                ELSE fs[k]]
    IN  IF frame.parentFrameId # 0
        THEN IF ~frameExists(sn, frame.parentFrameId)
             THEN Answer("fail", "parent frame not found", sn)
             ELSE IF has(sn.frames[frame.parentFrameId].context, frame.name)
             THEN Answer("throw", "fact name already present", sn)
             ELSE Answer("ok", "", [sn EXCEPT
                     !.frames = shared([@ EXCEPT
                         ![frame.parentFrameId].context =
                             addFact(@, frame.name, deepClone(frame.goal)).ctx,
                         ![frame.id].completed = TRUE])])
        ELSE IF has(sn.globalContext, frame.name)
             THEN Answer("throw", "fact name already present", sn)
             ELSE Answer("ok", "", [sn EXCEPT
                     !.globalContext = addFact(@, frame.name, deepClone(frame.goal)).ctx,
                     !.frames = shared([@ EXCEPT ![frame.id].completed = TRUE])])

\* finalize once the finalize_frame record is in the history
propagate(sn, frame) ==
    IF frame.parentFrameId # 0
    THEN IF ~frameExists(sn, frame.parentFrameId)
         THEN Answer("fail", "parent frame not found", sn)
         ELSE IF has(sn.frames[frame.parentFrameId].context, frame.name)
         THEN Answer("throw", "fact name already present", sn)
         ELSE Answer("ok", "", [sn EXCEPT
                 !.frames[frame.parentFrameId].context =
                     addFact(@, frame.name, deepClone(frame.goal)).ctx,
                 !.frames[frame.id].completed = TRUE])
    ELSE IF has(sn.globalContext, frame.name)
         THEN Answer("throw", "fact name already present", sn)
         ELSE Answer("ok", "", [sn EXCEPT
                 !.globalContext = addFact(@, frame.name, deepClone(frame.goal)).ctx,
                 !.frames[frame.id].completed = TRUE])

\* finalize that does not look at frame.completed
finalize_again(sn, frameId) ==
    IF ~frameExists(sn, frameId) THEN Answer("fail", "frame not found", sn)
    ELSE IF ~legacy_checkGoalProved(sn.frames[frameId].context, sn.frames[frameId].goal)
         THEN Answer("fail", "goal not yet proved", sn)
    ELSE propagate([sn EXCEPT !.commandHistory = Append(@,
                        [kind |-> "finalize_frame", frameId |-> frameId,
                         frameName |-> sn.frames[frameId].name,
                         goal |-> deepClone(sn.frames[frameId].goal)])],
                   sn.frames[frameId])

\* ProofSession.finalize
finalize(sn, frameId) ==
    IF ~frameExists(sn, frameId) THEN Answer("fail", "frame not found", sn)
    ELSE IF sn.frames[frameId].completed THEN Answer("fail", "frame already completed", sn)
    ELSE IF ~legacy_checkGoalProved(sn.frames[frameId].context, sn.frames[frameId].goal)
         THEN Answer("fail", "goal not yet proved", sn)
    ELSE propagate([sn EXCEPT !.commandHistory = Append(@,
                        [kind |-> "finalize_frame", frameId |-> frameId,
                         frameName |-> sn.frames[frameId].name,
                         goal |-> deepClone(sn.frames[frameId].goal)])],
                   sn.frames[frameId])

-----------------------------------------------------------------------------
(* Proof serialization of the frame API.  A string is the sequence of its    *)
(* pieces; the Chinese keywords are written in pinyin: you (have), shi (is), *)
(* buli, duoneng, fanzheng, zaixie zai (rewrite at), chongfan .. cheng       *)
(* (reverse .. as), queding; "!=" stands for the not-equal sign.  A line is  *)
(* [indent, text]: text after indent copies of the two-space indent unit.    *)

PREC(e) ==
    CASE e.type = "op" /\ e.op \in {"add", "sub"} -> 1
      [] e.type = "op" /\ e.op \in {"mul", "div"} -> 2
      [] e.type = "op" /\ e.op \in {"pow", "neg"} -> 3
      [] OTHER -> 4

wrap(str, childPrec, parentPrec) ==
    IF childPrec < parentPrec THEN <<"(">> \o str \o <<")">> ELSE str

\* Array.join
RECURSIVE join(_, _)
join(parts, joiner) ==
    IF parts = <<>> THEN <<>>
    ELSE IF Len(parts) = 1 THEN parts[1]
    ELSE parts[1] \o <<joiner>> \o join(Tail(parts), joiner)

RECURSIVE exprToOriginalString(_, _)
exprToOriginalString(e, parentPrec) ==
    CASE e.type = "var" -> <<e.name>>
      [] e.type = "const" -> <<ToString(e.value)>>
      [] e.type = "func" ->
            LET arg == e.args[1]
                argStr == exprToOriginalString(arg, 4)
            IN  <<e.name, " ">> \o (IF arg.type = "op" THEN <<"(">> \o argStr \o <<")">>
                                    ELSE argStr)
      [] e.type = "op" ->
            LET p == PREC(e)
                arg(k, prec) == exprToOriginalString(e.args[k], prec)
            IN  CASE e.op \in {"add", "mul"} ->
                       wrap(join([k \in 1..Len(e.args) |-> arg(k, p)],
                                 IF e.op = "add" THEN " + " ELSE " * "), p, parentPrec)
                  [] e.op = "sub" -> wrap(arg(1, p) \o <<" - ">> \o arg(2, p + 1), p, parentPrec)
                  [] e.op = "div" -> wrap(arg(1, p) \o <<" / ">> \o arg(2, p + 1), p, parentPrec)
                  [] e.op = "neg" -> wrap(<<"-">> \o arg(1, p), p, parentPrec)
                  [] e.op = "pow" -> wrap(arg(1, p) \o <<" ^ ">> \o arg(2, p), p, parentPrec)

factToOriginalString(f) ==
    exprToOriginalString(f.lhs, 0) \o <<IF f.kind = "eq" THEN " = " ELSE " != ">>
        \o exprToOriginalString(f.rhs, 0)

renderCommandRecord(rec) ==
    LET cmd == rec.cmd
        r == rec.resolved
    IN  CASE cmd.cmd = "duoneng" ->
               IF cmd.denomProofs # <<>>
               THEN <<"duoneng [">>
                    \o join([k \in 1..Len(cmd.denomProofs) |-> <<cmd.denomProofs[k]>>], ", ")
                    \o <<"]">>
               ELSE <<"duoneng">>
          [] cmd.cmd = "buli" ->
               <<"you ", cmd.newName, " : ">> \o exprToOriginalString(r.component, 0)
                   \o <<" != ">> \o exprToOriginalString(r.hypothesisFact.rhs, 0)
                   \o <<" shi buli ", cmd.hypothesis>>
          [] cmd.cmd = "fanzheng" -> <<"fanzheng ", cmd.hypName>>
          [] cmd.cmd = "rewrite" ->
               <<"zaixie zai ", ToString(IF cmd.occurrence = 0 THEN 1 ELSE cmd.occurrence),
                 " ", cmd.equalityName>>
          [] cmd.cmd = "reverse" -> <<"chongfan ", cmd.oldName, " cheng ", cmd.newName>>
          [] cmd.cmd = "certain" -> <<"queding">>

\* index of the earliest finalize_frame record of a frame called name; 0 if none
earliestProveIndex(hist, name) ==
    LET proofs == {i \in 1..Len(hist) :
                      hist[i].kind = "finalize_frame" /\ hist[i].frameName = name}
    IN  IF proofs = {} THEN 0 ELSE CHOOSE i \in proofs : \A j \in proofs : i <= j

\* the (name, snapshot) pairs of a cmd record, in the order the analysis reads them
referencedBy(rec) ==
    LET r == rec.resolved
    IN  IF rec.kind # "cmd" THEN <<>>
        ELSE IF "hypothesisName" \in DOMAIN r THEN <<Entry(r.hypothesisName, r.hypothesisFact)>>
        ELSE IF "hypName" \in DOMAIN r THEN <<Entry(r.hypName, r.hypFactBefore)>>
        ELSE IF "denomProofs" \in DOMAIN r
             THEN LET given == SelectSeq(r.denomProofs, LAMBDA d : d.fact # null)
                  IN  [k \in 1..Len(given) |-> Entry(given[k].name, given[k].fact)]
        ELSE IF "equalitySnapshot" \in DOMAIN r THEN <<Entry(r.equalityName, r.equalitySnapshot)>>
        ELSE IF "oldName" \in DOMAIN r THEN <<Entry(r.oldName, r.oldFact)>>
        ELSE <<>>

\* obj[name] = deepClone(fact) for every pair, in order (a property keeps the
\* position of its first assignment)
RECURSIVE assignAll(_, _)
assignAll(obj, pairs) ==
    IF pairs = <<>> THEN obj
    ELSE assignAll(setFact(obj, Head(pairs).name, Head(pairs).fact), Tail(pairs))

\* referencedFacts after the records i.. of the history have been read
RECURSIVE referencedFrom(_, _, _)
referencedFrom(hist, i, acc) ==
    IF i > Len(hist) THEN acc
    ELSE LET unproved == SelectSeq(referencedBy(hist[i]), LAMBDA u :
                             LET proveIdx == earliestProveIndex(hist, u.name)
                             IN  proveIdx = 0 \/ proveIdx > i)
         IN  referencedFrom(hist, i + 1, assignAll(acc, unproved))

\* ProofSession.analyzeHistoryForSeeding: referencedFacts
analyzeHistoryForSeeding(sn) ==
    assignAll(referencedFrom(sn.commandHistory, 1, <<>>), sn.globalContext)

\* the names a cmd record counts as used
usedNames(rec) ==
    LET r == rec.resolved
    IN  IF rec.kind # "cmd" THEN {}
        ELSE {r[key] : key \in {"hypothesisName", "hypName", "equalityName", "oldName"}
                                  \cap DOMAIN r}
             \cup (IF "denomProofs" \in DOMAIN r
                   THEN {r.denomProofs[k].name : k \in 1..Len(r.denomProofs)} ELSE {})

\* index of the first record that uses name; 0 if none
firstUseIndex(hist, name) ==
    LET uses == {i \in 1..Len(hist) : name \in usedNames(hist[i])}
    IN  IF uses = {} THEN 0 ELSE CHOOSE i \in uses : \A j \in uses : i <= j

\* seedToEmit after the entries of referencedFacts have been gone through
RECURSIVE seedToEmit(_, _, _)
seedToEmit(sn, referenced, acc) ==
    IF referenced = <<>> THEN acc
    ELSE LET name == Head(referenced).name
             firstUse == firstUseIndex(sn.commandHistory, name)
             provedIdx == earliestProveIndex(sn.commandHistory, name)
             used == IF firstUse # 0 /\ (provedIdx = 0 \/ provedIdx > firstUse)
                     THEN setFact(acc, name, Head(referenced).fact) ELSE acc
             seeded == IF has(sn.globalContext, name)
                       THEN setFact(used, name, getFact(sn.globalContext, name)) ELSE used
         IN  seedToEmit(sn, Tail(referenced), seeded)

Line(indent, text) == [indent |-> indent, text |-> text]

\* the stack after a finalize_frame record of frameId
closed(stack, frameId) ==
    IF stack # <<>> /\ stack[Len(stack)] = frameId THEN SubSeq(stack, 1, Len(stack) - 1)
    ELSE LET at == {k \in 1..Len(stack) : stack[k] = frameId}
         IN  IF at = {} THEN stack
             ELSE LET idx == CHOOSE k \in at : \A j \in at : j <= k
                  IN  SubSeq(stack, 1, idx - 1) \o SubSeq(stack, idx + 1, Len(stack))

\* the lines of the records i.. of the history, with stack the open frames
RECURSIVE streamed(_, _, _)
streamed(hist, i, stack) ==
    IF i > Len(hist) THEN <<>>
    ELSE LET rec == hist[i]
         IN  CASE rec.kind = "start_frame" ->
                    <<Line(Len(stack), <<"you ", rec.frameName, " : ">>
                                          \o factToOriginalString(rec.goal) \o <<" shi">>)>>
                        \o streamed(hist, i + 1, Append(stack, rec.frameId))
               [] rec.kind = "cmd" ->
                    <<Line(Len(stack), renderCommandRecord(rec))>>
                        \o streamed(hist, i + 1, stack)
               [] rec.kind = "finalize_frame" ->
                    streamed(hist, i + 1, closed(stack, rec.frameId))

\* the lines of the seed preamble
seedLines(seeds) ==
    [k \in 1..Len(seeds) |->
        Line(0, <<"you ", seeds[k].name, " : ">> \o factToOriginalString(seeds[k].fact)
                    \o <<" shi // seeded">>)]

\* ProofSession.serializeAll: the lines that are joined by newlines
serializeAll(sn) ==
    seedLines(seedToEmit(sn, analyzeHistoryForSeeding(sn), <<>>))
        \o streamed(sn.commandHistory, 1, <<>>)

\* the facts a frame-API session is constructed with
GlobalSeeds == {<<product_eq, c_nonzero, H1>>}
\* the name and the goal a frame is started with
FrameStarts ==
    { Entry("product_nonzero", neq(mul(a, b), zero)),
      Entry("c_nonzero", neq(c, zero)),
      Entry("product_nonzero", eq(div(x, x), one)) }
\* an id that no frame of the session has
NoSuchFrame == MaxFrames + 2
\* the fact addGlobalFact is called with: a new value for a name of the seed
GlobalFacts == {Entry("c_nonzero", neq(a, zero))}

\* the facts seedGlobalContext is called with: a new value for one name of
\* the seed and the value another one has
SeedLists == {<<Entry("c_nonzero", neq(a, zero)), product_eq>>}

FrameCommands ==
    { [cmd |-> "rewrite", occurrence |-> 1, equalityName |-> "product_eq"],
      [cmd |-> "fanzheng", hypName |-> "c_nonzero"],
      [cmd |-> "buli", newName |-> "a_from_product", component |-> a,
       hypothesis |-> "product_nonzero"],
      [cmd |-> "reverse", oldName |-> "product_eq", newName |-> "late"],
      [cmd |-> "duoneng", denomProofs |-> <<"H1">>],
      [cmd |-> "certain"] }

current == Session(globalContext, frames, commandHistory)

InitFrames ==
    /\ globalContext \in {clone(g) : g \in GlobalSeeds}
    /\ frames = <<>>
    /\ commandHistory = <<>>
    /\ frameLast = [op |-> "new"]
    /\ CoreIdle
    /\ TreeIdle

\* the session becomes what the operation op answered with; frameLast keeps
\* the last operation that changed the session
AnsweredWithin(bound, op, frameId, cmd, r) ==
    /\ Len(r.commandHistory) <= bound
    /\ globalContext' = r.globalContext
    /\ frames' = r.frames
    /\ commandHistory' = r.commandHistory
    /\ frameLast' = IF Session(r.globalContext, r.frames, r.commandHistory) = current
                    THEN frameLast
                    ELSE [op |-> op, frameId |-> frameId, cmd |-> Kept(cmd, r.result),
                          result |-> r.result, message |-> r.message, pre |-> current]
    /\ UNCHANGED <<coreVars, treeVars>>

Answered(op, frameId, cmd, r) == AnsweredWithin(MaxHistory, op, frameId, cmd, r)

AddGlobalFact ==
    \E f \in GlobalFacts : \E overwrite \in BOOLEAN :
        /\ frameLast.op # "none"
        /\ Answered("addGlobalFact", 0, [cmd |-> f.name, overwrite |-> overwrite],
                    addGlobalFact(current, f.name, f.fact, overwrite))

SeedGlobalContext ==
    \E initialFacts \in SeedLists : \E overwrite \in BOOLEAN :
        /\ frameLast.op # "none"
        /\ Answered("seedGlobalContext", 0,
                    [cmd |-> initialFacts[1].name, overwrite |-> overwrite],
                    seedGlobalContext(current, initialFacts, overwrite))

StartHave ==
    \E have \in FrameStarts : \E parentFrameId \in 0..Len(frames) \cup {NoSuchFrame} :
        /\ frameLast.op # "none"
        /\ Len(frames) < MaxFrames
        /\ Len(commandHistory) < MaxHistory
        /\ Answered("startHave", Len(frames) + 1, [cmd |-> have.name],
                    startHave(current, have.name, have.fact, parentFrameId))

AddCommand ==
    \E frameId \in 1..Len(frames) \cup {NoSuchFrame} : \E cmd \in FrameCommands :
    \E oracle \in OracleAnswers(cmd) :
        /\ frameLast.op # "none"
        /\ Answered("addCommand", frameId, cmd,
                    addCommand(DEFAULT_REWRITE_RULES, current, frameId, cmd, oracle))

Finalize ==
    \E frameId \in 1..Len(frames) \cup {NoSuchFrame} :
        /\ frameLast.op # "none"
        /\ Answered("finalize", frameId, [cmd |-> "finalize"], finalize(current, frameId))

NextFrames ==
    \/ AddGlobalFact
    \/ SeedGlobalContext
    \/ StartHave
    \/ AddCommand
    \/ Finalize

SpecFrames == InitFrames /\ [][NextFrames]_vars

\* Sessions that nest frames: longer histories of frames whose goal is a fact
\* of the seed, with few commands.
MaxNesting == 4
NestingStarts == {Entry("late", neq(c, zero)), Entry("c_nonzero", neq(c, zero))}
NestingCommands ==
    { [cmd |-> "reverse", oldName |-> "product_eq", newName |-> "late"],
      [cmd |-> "fanzheng", hypName |-> "c_nonzero"] }

\* a list of facts to seed whose second name is a name of the seed, between
\* two names that are new
NestingSeeds ==
    {<<Entry("seeded", neq(b, zero)), Entry("c_nonzero", neq(a, zero)),
       Entry("later", neq(a, zero))>>}

NestSeedGlobalContext ==
    \E initialFacts \in NestingSeeds :
        AnsweredWithin(MaxNesting, "seedGlobalContext", 0,
                       [cmd |-> initialFacts[1].name, overwrite |-> FALSE],
                       seedGlobalContext(current, initialFacts, FALSE))

\* the parent is no frame (0), a frame of the session, or an id that no frame
\* has yet: the ids are frame_1, frame_2, ... in the order of creation
NestStartHave ==
    \E have \in NestingStarts : \E parentFrameId \in 0..MaxFrames :
        /\ Len(frames) < MaxFrames
        /\ AnsweredWithin(MaxNesting, "startHave", Len(frames) + 1, [cmd |-> have.name],
                          startHave(current, have.name, have.fact, parentFrameId))

NestAddCommand ==
    \E frameId \in 1..Len(frames) : \E cmd \in NestingCommands :
        AnsweredWithin(MaxNesting, "addCommand", frameId, cmd,
                       addCommand(DEFAULT_REWRITE_RULES, current, frameId, cmd, FALSE))

NestFinalize ==
    \E frameId \in 1..Len(frames) :
        AnsweredWithin(MaxNesting, "finalize", frameId, [cmd |-> "finalize"],
                       finalize(current, frameId))

NextNesting ==
    \/ NestSeedGlobalContext
    \/ NestStartHave
    \/ NestAddCommand
    \/ NestFinalize

SpecNesting == InitFrames /\ [][NextNesting]_vars

\* either session API, one run using one of them
InitSessions == InitTree \/ InitFrames
NextSessions == NextTree \/ NextFrames
SpecSessions == InitSessions /\ [][NextSessions]_vars

-----------------------------------------------------------------------------
(* Notions the claims are stated with *)

RECURSIVE Subterms(_)
Subterms(e) ==
    {e} \cup (IF e.type \in {"op", "func"}
              THEN UNION {Subterms(e.args[k]) : k \in 1..Len(e.args)}
              ELSE {})

ContainsVariable(e) == \E t \in Subterms(e) : t.type = "var"

\* every right operand of a division anywhere in the goal
DenominatorsOf(goal) ==
    {t.args[2] : t \in {u \in Subterms(goal.lhs) \cup Subterms(goal.rhs) :
                            u.type = "op" /\ u.op = "div"}}

Names(ctx) == {ctx[k].name : k \in 1..Len(ctx)}
Bound(ctx, n) == ctx[CHOOSE k \in 1..Len(ctx) : ctx[k].name = n].fact

-----------------------------------------------------------------------------
(* Claims about the command engine *)

\* C1: when Prover.runCommand reports failure, the goal, the context (names,
\* order, facts) and the explicit-completion flag are what they were before the
\* call, for each of the six commands and whatever the oracle answers.
C1_FailureChangesNothing ==
    /\ last.result = "fail" => state = last.pre
    /\ \A cmd \in Commands(state) : \A oracle \in OracleAnswers(cmd) :
          LET r == runCommand(state, cmd, oracle)
          IN  r.result = "fail" => r.state = state

\* a 多能 or 再写 was rejected in a State that earlier commands had already changed
C1_Witness ==
    /\ last.result = "fail"
    /\ last.cmd.cmd \in {"duoneng", "rewrite"}
    /\ last.steps >= 2
    /\ state.context # <<>>

RECURSIVE ForcedNonZero(_)
ForcedNonZero(e) ==
    {e} \cup
    IF e.type = "op" /\ e.op \in {"mul", "div", "neg"}
    THEN UNION {ForcedNonZero(e.args[k]) : k \in 1..Len(e.args)}
    ELSE IF e.type = "func" /\ e.name \in {"sqnorm", "Re", "Im", "conj"}
    THEN ForcedNonZero(e.args[1])
    ELSE {}

\* a Constant whose value is zero
IsZeroConstant(e) == e.type = "const" /\ e.value = 0

\* the components 不利 is asked for: every subterm of a fact of the context and
\* a variable that occurs nowhere
ProbedComponents(ctx) ==
    {VarNode("d")} \cup UNION {Subterms(ctx[k].fact.lhs) : k \in 1..Len(ctx)}

C12_CertainNeedsConstants ==
    (state.goal.kind = "neq" \/ ContainsVariable(state.goal.lhs)
                            \/ ContainsVariable(state.goal.rhs)) =>
        \A oracle \in BOOLEAN :
            LET r == runCommand(state, [cmd |-> "certain"], oracle)
            IN  r.result = "fail" /\ r.state = state

\* 确定 was rejected on the goal i*i = -1 built with the Variable i, and would
\* be rejected also if the simplifier were to answer 0
C12_Witness ==
    /\ last.cmd.cmd = "certain"
    /\ last.result = "fail"
    /\ state = last.pre
    /\ ~state.explicitCompletion
    /\ state.goal = eq(mul(VarNode("i"), VarNode("i")), ConstNode(-1))
    /\ runCommand(state, [cmd |-> "certain"], TRUE).result = "fail"

\* the paths of the nodes of an expression, and of the nodes of a fact
RECURSIVE PathsOf(_)
PathsOf(e) ==
    {<<>>} \cup (IF e.type \in {"op", "func"}
                 THEN UNION {{<<k>> \o q : q \in PathsOf(e.args[k])} : k \in 1..Len(e.args)}
                 ELSE {})
FactPaths(f) ==
    {<<"lhs">> \o q : q \in PathsOf(f.lhs)} \cup {<<"rhs">> \o q : q \in PathsOf(f.rhs)}

IsPrefix(p, q) == Len(p) <= Len(q) /\ SubSeq(q, 1, Len(p)) = p

\* a node without its subterms: its type, operator or name, and arity
Shape(e) == IF e.type \in {"op", "func"} THEN [e EXCEPT !.args = Len(e.args)] ELSE e

\* goal after is goal before with exactly the subterm at path replaced by repl
ReplacedExactlyAt(before, after, path, repl) ==
    /\ after.kind = before.kind
    /\ path # <<>>
    /\ path \in FactPaths(before)
    /\ getAtPathInFact(after, path) = repl
    /\ \A q \in FactPaths(before) :
          IF IsPrefix(path, q) THEN TRUE
          ELSE IF IsPrefix(q, path)
               THEN Shape(getAtPathInFact(after, q)) = Shape(getAtPathInFact(before, q))
               ELSE getAtPathInFact(after, q) = getAtPathInFact(before, q)

\* the occurrence indices and the names 再写 is asked with
ProbedOccurrences == 0..4
ProbedEqualities(ctx) == RefNames(ctx) \cup UsedRuleNames

\* C13: a 再写 with occurrence k that succeeds replaces exactly the subterm at
\* the path of the k-th candidate by that candidate's replacement; the kind of
\* the goal, every position outside the path, the context and the flag are
\* unchanged; the path is never empty.
C13_RewriteOccurrenceExact ==
    /\ \A e \in ProbedEqualities(state.context) :
          LET occ == rewriteOccurrences(DEFAULT_REWRITE_RULES, state, e)
          IN  \A k \in ProbedOccurrences :
                LET r == runCommand(state, [cmd |-> "rewrite", occurrence |-> k,
                                            equalityName |-> e], FALSE)
                    n == IF k = 0 THEN 1 ELSE k
                IN  /\ r.result \in {"ok", "fail"}
                    /\ r.result = "ok" =>
                      /\ n <= Len(occ)
                      /\ ReplacedExactlyAt(state.goal, r.state.goal, occ[n].path,
                                           occ[n].replaceWith)
                      /\ r.state.context = state.context
                      /\ r.state.explicitCompletion = state.explicitCompletion
    /\ (last.cmd.cmd = "rewrite" /\ last.result = "ok") =>
          LET occ == rewriteOccurrences(DEFAULT_REWRITE_RULES, last.pre, last.cmd.equalityName)
              n == IF last.cmd.occurrence = 0 THEN 1 ELSE last.cmd.occurrence
          IN  /\ ReplacedExactlyAt(last.pre.goal, state.goal, occ[n].path, occ[n].replaceWith)
              /\ state.context = last.pre.context

\* a 再写 inside one side of the goal has rewritten one of two occurrences of
\* the same term; the other occurrence is still there to be rewritten
C13_Witness ==
    /\ last.cmd.cmd = "rewrite"
    /\ last.result = "ok"
    /\ state.goal # last.pre.goal
    /\ LET occ == rewriteOccurrences(DEFAULT_REWRITE_RULES, last.pre, last.cmd.equalityName)
           n == IF last.cmd.occurrence = 0 THEN 1 ELSE last.cmd.occurrence
       IN  /\ Len(occ[n].path) >= 2
           /\ \E j \in 1..Len(occ) :
                 /\ j # n
                 /\ getAtPathInFact(last.pre.goal, occ[j].path)
                       = getAtPathInFact(last.pre.goal, occ[n].path)
                 /\ getAtPathInFact(state.goal, occ[j].path)
                       = getAtPathInFact(last.pre.goal, occ[j].path)
                 /\ \E m \in 1..2 :
                       runCommand(state, [cmd |-> "rewrite", occurrence |-> m,
                                          equalityName |-> last.cmd.equalityName], FALSE).state.goal
                         = setAtPathInFact(state.goal, occ[j].path, occ[j].replaceWith)

\* pre-order of positions: a node comes before the nodes below it, and the
\* nodes under an earlier argument before those under a later one
PreOrderBefore(p, q) ==
    /\ p # q
    /\ \/ IsPrefix(p, q)
       \/ \E i \in 1..Len(p) :
             /\ i <= Len(q)
             /\ SubSeq(p, 1, i - 1) = SubSeq(q, 1, i - 1)
             /\ p[i] < q[i]

\* the paths of a set listed in pre-order
RECURSIVE InPreOrder(_)
InPreOrder(S) ==
    IF S = {} THEN <<>>
    ELSE LET first == CHOOSE p \in S : \A q \in S \ {p} : PreOrderBefore(p, q)
         IN  <<first>> \o InPreOrder(S \ {first})

\* a pattern with its pattern variables replaced as sigma says
RECURSIVE Subst(_, _)
Subst(pat, sigma) ==
    IF pat.type = "var" /\ pat.name \in PatternVarNames THEN sigma[pat.name]
    ELSE IF pat.type \in {"op", "func"}
    THEN [pat EXCEPT !.args = [k \in 1..Len(pat.args) |-> Subst(pat.args[k], sigma)]]
    ELSE pat

PatternVarsOf(pat) ==
    {t.name : t \in {u \in Subterms(pat) : u.type = "var" /\ u.name \in PatternVarNames}}

\* the substitutions under which the pattern is the node
MatchesOf(pat, node) ==
    {sigma \in [PatternVarsOf(pat) -> Subterms(node)] : Subst(pat, sigma) = node}

\* one group of candidates: the positions of one side of the goal where the
\* term occurs, in pre-order, each replaced by repl
TermGroup(goal, side, term, repl) ==
    LET ps == InPreOrder({q \in PathsOf(goal[side]) : getAtPathInExpr(goal[side], q) = term})
    IN  [k \in 1..Len(ps) |-> [path |-> <<side>> \o ps[k], replaceWith |-> repl]]

\* one group of candidates: the positions of one side of the goal that match
\* the pattern, in pre-order, each replaced by the instantiated other side
PatternGroup(goal, side, pat, other) ==
    LET ps == InPreOrder({q \in PathsOf(goal[side]) :
                              MatchesOf(pat, getAtPathInExpr(goal[side], q)) # {}})
    IN  [k \in 1..Len(ps) |->
            [path |-> <<side>> \o ps[k],
             replaceWith |-> Subst(other, CHOOSE sigma \in
                                 MatchesOf(pat, getAtPathInExpr(goal[side], ps[k])) : TRUE)]]

\* the candidate list of 再写 for a name
OrderedCandidates(st, name) ==
    (IF name \in Names(st.context) /\ Bound(st.context, name).kind = "eq"
     THEN LET f == Bound(st.context, name)
          IN  TermGroup(st.goal, "lhs", f.lhs, f.rhs) \o TermGroup(st.goal, "rhs", f.lhs, f.rhs)
              \o TermGroup(st.goal, "lhs", f.rhs, f.lhs) \o TermGroup(st.goal, "rhs", f.rhs, f.lhs)
     ELSE <<>>)
    \o
    (IF name \in RuleNames
     THEN LET rule == DEFAULT_REWRITE_RULES[name]
          IN  PatternGroup(st.goal, "lhs", rule.lhs, rule.rhs)
              \o PatternGroup(st.goal, "rhs", rule.lhs, rule.rhs)
              \o PatternGroup(st.goal, "lhs", rule.rhs, rule.lhs)
              \o PatternGroup(st.goal, "rhs", rule.rhs, rule.lhs)
     ELSE <<>>)

C15_CollisionIsFailure ==
    /\ last.cmd.cmd \in {"reverse", "buli"} => last.result # "throw"
    /\ \A n \in Names(state.context) : \A h \in RefNames(state.context) :
          \A cmd \in {[cmd |-> "reverse", oldName |-> h, newName |-> n]}
                      \cup {[cmd |-> "buli", newName |-> n, component |-> comp, hypothesis |-> h] :
                                comp \in Components} :
              LET r == runCommand(state, cmd, FALSE)
              IN  r.result = "fail" /\ r.state.context = state.context

\* C25: in a frame the kind of a fact of the context changes only together
\* with the kind of the frame's goal, by a 反证 that succeeds: the named
\* hypothesis and the goal both go from Inequality to Equality in that step, and
\* no other command changes a kind.
C25_KindChangesOnlyBySwap ==
    (frameLast.op = "addCommand" /\ frameLast.result = "ok") =>
        LET before == frameLast.pre.frames[frameLast.frameId]
            after == frames[frameLast.frameId]
            swapped == frameLast.cmd.cmd = "fanzheng"
        IN  /\ after.goal.kind # before.goal.kind =>
                  swapped /\ before.goal.kind = "neq"
            /\ \A k \in 1..Len(before.context) :
                  after.context[k].fact.kind # before.context[k].fact.kind =>
                      /\ swapped
                      /\ before.context[k].name = frameLast.cmd.hypName
                      /\ before.context[k].fact.kind = "neq"
                      /\ before.goal.kind = "neq"
                      /\ after.goal.kind = "eq"

\* the supplied names ps prove every non-constant denominator of the goal
DenominatorsProven(st, ps) ==
    \A d \in DenominatorsOf(st.goal) :
        ContainsVariable(d) =>
            \E n \in Range(ps) \cap Names(st.context) :
                Bound(st.context, n) = [kind |-> "neq", lhs |-> d, rhs |-> ConstNode(0)]

\* C10: 多能 can succeed only if the goal is an Equality and every non-constant
\* denominator anywhere in the goal (nested ones included) is structurally the
\* lhs of a supplied Inequality fact with rhs Constant(0); when one is not
\* proven the command fails without state change whatever the oracle answers;
\* denominators without a Variable need no proof.
C10_DenominatorProofs ==
    /\ (last.cmd.cmd = "duoneng" /\ last.result = "ok") =>
          /\ last.pre.goal.kind = "eq"
          /\ DenominatorsProven(last.pre, last.cmd.denomProofs)
    /\ \A cmd \in DuonengCommands(state) : \A oracle \in BOOLEAN :
          LET r == runCommand(state, cmd, oracle)
          IN  (state.goal.kind # "eq" \/ ~DenominatorsProven(state, cmd.denomProofs)) =>
                 (r.result = "fail" /\ r.state = state)
    /\ \A cmd \in DuonengCommands(state) :
          (/\ ~state.explicitCompletion
           /\ state.goal.kind = "eq"
           /\ \A d \in DenominatorsOf(state.goal) : ~ContainsVariable(d)
           /\ cmd.denomProofs = <<>>) =>
              runCommand(state, cmd, TRUE).result = "ok"

\* 多能 succeeded on a goal with a denominator inside a denominator and with a
\* constant denominator, each non-constant one proven by its own fact
C10_Witness ==
    /\ last.cmd.cmd = "duoneng"
    /\ last.result = "ok"
    /\ \E d \in DenominatorsOf(last.pre.goal) : DenominatorsOf(eq(d, d)) # {}
    /\ \E d \in DenominatorsOf(last.pre.goal) : ~ContainsVariable(d)
    /\ Len(last.cmd.denomProofs) = 2

-----------------------------------------------------------------------------
(* Claims about sessions and frames *)

\* the goal frame f was started with, as the start_frame record keeps it
StartedGoal(h, f) ==
    h[CHOOSE k \in 1..Len(h) : h[k].kind = "start_frame" /\ h[k].frameId = f].goal

\* the context a finalize of frame f of session sn adds the frame's fact to
Destination(sn, f) ==
    IF sn.frames[f].parentFrameId = 0 THEN sn.globalContext
    ELSE sn.frames[sn.frames[f].parentFrameId].context

\* C3: a finalize that succeeds promotes, under the frame's name, the goal the
\* frame was started with, also when 再写 or 反证 transformed the goal meanwhile.
C3_PromotesOriginalGoal ==
    (frameLast.op = "finalize" /\ frameLast.result = "ok") =>
        Bound(Destination(current, frameLast.frameId), frames[frameLast.frameId].name)
            = StartedGoal(commandHistory, frameLast.frameId)

\* C4: once a frame is finalized (frame API) or a session is explicitly
\* complete (多能 or 确定 succeeded), every later command on it is rejected and
\* the goal, the context, the command list and the history stay as they were.
C4_CompletedRejectsCommands ==
    /\ \A f \in 1..Len(frames) : frames[f].completed =>
          \A cmd \in FrameCommands : \A oracle \in OracleAnswers(cmd) :
              LET r == addCommand(DEFAULT_REWRITE_RULES, current, f, cmd, oracle)
              IN  /\ r.result = "fail"
                  /\ r.frames = frames
                  /\ r.globalContext = globalContext
                  /\ r.commandHistory = commandHistory
    /\ ~(frameLast.op = "addCommand" /\ frameLast.frameId \in 1..Len(frames)
            /\ frameLast.pre.frames[frameLast.frameId].completed)
    /\ \A s \in 1..Len(sessions) : sessions[s].state.explicitCompletion =>
          \A cmd \in SessionCommands : \A oracle \in OracleAnswers(cmd) :
              LET r == sessionRunCommand(sessions, s, cmd, oracle)
              IN  r.result = "fail" /\ r.sessions = sessions
    /\ ~(treeLast.op = "runCommand"
            /\ treeLast.pre[treeLast.session].state.explicitCompletion)

\* a finalize has completed a frame that had run a command, and a 反证 that
\* the frame would accept otherwise is answered "frame already completed"
C4_Witness ==
    /\ frameLast.op = "finalize"
    /\ frameLast.result = "ok"
    /\ frames[frameLast.frameId].completed
    /\ frames[frameLast.frameId].commands # <<>>
    /\ addCommand(DEFAULT_REWRITE_RULES, frameLast.pre, frameLast.frameId,
                  [cmd |-> "fanzheng", hypName |-> "c_nonzero"], FALSE).result = "ok"
    /\ addCommand(DEFAULT_REWRITE_RULES, current, frameLast.frameId,
                  [cmd |-> "fanzheng", hypName |-> "c_nonzero"], FALSE).message
          = "frame already completed"

\* C5: a frame owns its context.  A command on frame F changes F only: the
\* other frames and the global context stay as they were; a fact added to the
\* global context leaves every frame as it was; a frame starts with a copy of
\* the context it inherits and changes no other frame.
C5_ContextIsolation ==
    /\ (frameLast.op = "addCommand" /\ frameLast.result = "ok") =>
          /\ globalContext = frameLast.pre.globalContext
          /\ \A k \in 1..Len(frames) :
                k # frameLast.frameId => frames[k] = frameLast.pre.frames[k]
    /\ frameLast.op = "addGlobalFact" => frames = frameLast.pre.frames
    /\ frameLast.op = "startHave" =>
          /\ globalContext = frameLast.pre.globalContext
          /\ \A k \in 1..Len(frameLast.pre.frames) : frames[k] = frameLast.pre.frames[k]
          /\ frames[frameLast.frameId].context =
                (IF frames[frameLast.frameId].parentFrameId \in 1..Len(frameLast.pre.frames)
                 THEN frameLast.pre.frames[frames[frameLast.frameId].parentFrameId].context
                 ELSE frameLast.pre.globalContext)

\* a command changed the context of a frame whose parent frame exists
C5_Witness ==
    /\ frameLast.op = "addCommand"
    /\ frameLast.result = "ok"
    /\ frames[frameLast.frameId].parentFrameId \in 1..Len(frames)
    /\ frames[frameLast.frameId].parentFrameId # frameLast.frameId
    /\ frames[frameLast.frameId].context # frameLast.pre.frames[frameLast.frameId].context
    /\ frames[frames[frameLast.frameId].parentFrameId].context
          # frames[frameLast.frameId].context

\* what C6 calls proved
Proved(st) ==
    \/ st.explicitCompletion
    \/ st.goal.kind = "eq" /\ st.goal.lhs = st.goal.rhs
    \/ \E n \in Names(st.context) :
          /\ Bound(st.context, n).kind = st.goal.kind
          /\ Bound(st.context, n).lhs = st.goal.lhs
          /\ Bound(st.context, n).rhs = st.goal.rhs

\* C6: a session is complete exactly when it is explicitly complete, or its
\* goal is an Equality with structurally equal sides or with an Equality fact
\* of the same lhs and rhs in the same order, or its goal is an Inequality with
\* an identical Inequality fact; so it is complete as soon as such a fact is in
\* its context, without any command.
C6_CompleteIffProved ==
    \A s \in 1..Len(sessions) : isComplete(sessions[s]) <=> Proved(sessions[s].state)

\* a session that has run no command became complete when the fact of a nested
\* proof was added to its context
C6_Witness ==
    /\ treeLast.op = "finalizeNestedProof"
    /\ treeLast.result = "ok"
    /\ sessions[treeLast.session].executedCommands = <<>>
    /\ ~isComplete(treeLast.pre[treeLast.session])
    /\ isComplete(sessions[treeLast.session])

\* C7: a finalize of a frame that is already finalized is rejected, adds no
\* fact to any context and appends no record to the history.
C7_SecondFinalizeRejected ==
    /\ \A f \in 1..Len(frames) : frames[f].completed =>
          LET r == finalize(current, f)
          IN  /\ r.result = "fail"
              /\ r.message = "frame already completed"
              /\ r.frames = frames
              /\ r.globalContext = globalContext
              /\ r.commandHistory = commandHistory
    /\ ~(frameLast.op = "finalize" /\ frameLast.frameId \in 1..Len(frames)
            /\ frameLast.pre.frames[frameLast.frameId].completed)

\* a finalize has completed a frame and added its fact to the context above
\* it: the next finalize of that frame is the second one
C7_Witness ==
    /\ frameLast.op = "finalize"
    /\ frameLast.result = "ok"
    /\ frames[frameLast.frameId].completed
    /\ ~has(Destination(frameLast.pre, frameLast.frameId), frames[frameLast.frameId].name)
    /\ has(Destination(current, frameLast.frameId), frames[frameLast.frameId].name)
    /\ finalize(current, frameLast.frameId).message = "frame already completed"

\* C8: a finalize that does not succeed (goal not proved, parent frame not
\* found, name already in the destination) reports failure without throwing and
\* changes nothing: the frame is not completed, no context is changed, no
\* finalize_frame record is appended.
C8_FinalizeAllOrNothing ==
    (frameLast.op = "finalize" /\ frameLast.result # "ok") =>
        /\ frameLast.result = "fail"
        /\ current = frameLast.pre

\* C9: when 多能 or 确定 succeeds on a frame the goal and the context stay as
\* they were, the frame counts as proved from then on, and a finalize of the
\* frame succeeds unless the frame's name is already in the destination.
C9_ExplicitCompletionFinalizes ==
    (frameLast.op = "addCommand" /\ frameLast.result = "ok"
        /\ frameLast.cmd.cmd \in {"duoneng", "certain"}) =>
        /\ frames[frameLast.frameId].goal = frameLast.pre.frames[frameLast.frameId].goal
        /\ frames[frameLast.frameId].context = frameLast.pre.frames[frameLast.frameId].context
        /\ \/ finalize(current, frameLast.frameId).result = "ok"
           \/ /\ frames[frameLast.frameId].parentFrameId \in {0} \cup 1..Len(frames)
              /\ has(Destination(current, frameLast.frameId), frames[frameLast.frameId].name)

\* C16: the history is append-only: a startHave, addCommand or finalize that
\* succeeds appends exactly one record at the end, a failed addCommand or
\* failed finalize appends nothing, and no operation removes, reorders or
\* modifies a record that is already there.
C16_HistoryAppendOnly ==
    frameLast.op \in {"addGlobalFact", "startHave", "addCommand", "finalize"} =>
        LET before == frameLast.pre.commandHistory
        IN  /\ IsPrefix(before, commandHistory)
            /\ (frameLast.op # "addGlobalFact" /\ frameLast.result = "ok") =>
                   Len(commandHistory) = Len(before) + 1
            /\ (frameLast.op = "addGlobalFact" \/ frameLast.result # "ok") =>
                   commandHistory = before

\* the snapshots of a cmd record are the facts the command's names were bound
\* to in the context ctx, and the goal is the one the frame had
SnapshotOf(rec, cmd, ctx, goal) ==
    LET r == rec.resolved
        was(n) == IF n \in Names(ctx) THEN Bound(ctx, n) ELSE null
    IN  /\ rec.kind = "cmd"
        /\ rec.cmd = cmd
        /\ r.preGoal = goal
        /\ CASE cmd.cmd = "buli" ->
                    r.hypothesisName = cmd.hypothesis /\ r.hypothesisFact = was(cmd.hypothesis)
              [] cmd.cmd = "fanzheng" ->
                    r.hypName = cmd.hypName /\ r.hypFactBefore = was(cmd.hypName)
              [] cmd.cmd = "duoneng" ->
                    /\ Len(r.denomProofs) = Len(cmd.denomProofs)
                    /\ \A k \in 1..Len(cmd.denomProofs) :
                          /\ r.denomProofs[k].name = cmd.denomProofs[k]
                          /\ r.denomProofs[k].fact = was(cmd.denomProofs[k])
              [] cmd.cmd = "rewrite" ->
                    /\ r.equalityName = cmd.equalityName
                    /\ (was(cmd.equalityName) # null /\ was(cmd.equalityName).kind = "eq") =>
                          r.equalitySnapshot = was(cmd.equalityName)
              [] cmd.cmd = "reverse" ->
                    r.oldName = cmd.oldName /\ r.oldFact = was(cmd.oldName)
              [] cmd.cmd = "certain" -> TRUE

\* C17: the record of a command keeps, for every fact the command referenced,
\* the fact bound to that name in the frame's context just before the command
\* ran; no later operation changes a record: the snapshot of a 反证 on H stays
\* the original Inequality, and the goal of a start_frame record stays the goal
\* the frame was started with.
C17_SnapshotFidelity ==
    /\ (frameLast.op = "addCommand" /\ frameLast.result = "ok") =>
          LET f == frameLast.frameId
          IN  /\ commandHistory[Len(commandHistory)].frameId = f
              /\ SnapshotOf(commandHistory[Len(commandHistory)], frameLast.cmd,
                            frameLast.pre.frames[f].context, frameLast.pre.frames[f].goal)
    /\ frameLast.op = "startHave" =>
          /\ commandHistory[Len(commandHistory)].kind = "start_frame"
          /\ commandHistory[Len(commandHistory)].goal = frames[Len(frames)].goal
    /\ frameLast.op \in {"addGlobalFact", "startHave", "addCommand", "finalize"} =>
          IsPrefix(frameLast.pre.commandHistory, commandHistory)

\* the history holds the record of a 反证 on H with H as the Inequality it was,
\* the frame's context now binds H to an Equality, and a later operation has
\* been recorded after it
C17_Witness ==
    \E k \in 1..Len(commandHistory) :
        LET rec == commandHistory[k]
        IN  /\ k < Len(commandHistory)
            /\ rec.kind = "cmd"
            /\ rec.cmd.cmd = "fanzheng"
            /\ rec.resolved.hypFactBefore.kind = "neq"
            /\ Bound(frames[rec.frameId].context, rec.cmd.hypName).kind = "eq"
            /\ Bound(frameLast.pre.frames[rec.frameId].context, rec.cmd.hypName).kind = "eq"

\* the names of the seed lines of a serialization
SeedNames(lines) ==
    {lines[k].text[2] : k \in {i \in 1..Len(lines) :
                                  lines[i].text[Len(lines[i].text)] = " shi // seeded"}}

\* the names a cmd record takes as input: the hypothesis of 不利 and 反证, the
\* denominator proofs of 多能, the equality of a 再写 that resolved to a fact of
\* the context, oldName of 重反
InputNames(rec) ==
    IF rec.kind # "cmd" THEN {}
    ELSE CASE rec.cmd.cmd = "buli" -> {rec.cmd.hypothesis}
           [] rec.cmd.cmd = "fanzheng" -> {rec.cmd.hypName}
           [] rec.cmd.cmd = "duoneng" -> Range(rec.cmd.denomProofs)
           [] rec.cmd.cmd = "rewrite" ->
                 IF "equalitySnapshot" \in DOMAIN rec.resolved
                 THEN {rec.cmd.equalityName} ELSE {}
           [] rec.cmd.cmd = "reverse" -> {rec.cmd.oldName}
           [] OTHER -> {}

\* the index of the earliest record that takes name as input
EarliestUse(hist, name) ==
    CHOOSE i \in 1..Len(hist) :
        /\ name \in InputNames(hist[i])
        /\ \A j \in 1..(i - 1) : name \notin InputNames(hist[j])

\* the names whose earliest use is not preceded by the finalize of a frame of
\* that name
UnprovedInputs(hist) ==
    {n \in UNION {InputNames(hist[i]) : i \in 1..Len(hist)} :
        \A j \in 1..(EarliestUse(hist, n) - 1) :
            ~(hist[j].kind = "finalize_frame" /\ hist[j].frameName = n)}

\* C18: the seed preamble of serializeAll holds exactly the names whose earliest
\* use as a command input is not preceded by a finalize record of a frame with
\* that name; a name no command used, or proved before its first use, is no seed.
C18_SeedsAreUnprovedInputs ==
    SeedNames(serializeAll(current)) = UnprovedInputs(commandHistory)

\* the snapshot a cmd record keeps of its input name
SnapshotIn(rec, name) ==
    CASE rec.cmd.cmd = "buli" -> rec.resolved.hypothesisFact
      [] rec.cmd.cmd = "fanzheng" -> rec.resolved.hypFactBefore
      [] rec.cmd.cmd = "duoneng" ->
            rec.resolved.denomProofs[CHOOSE k \in 1..Len(rec.cmd.denomProofs) :
                                         rec.cmd.denomProofs[k] = name].fact
      [] rec.cmd.cmd = "rewrite" -> rec.resolved.equalitySnapshot
      [] rec.cmd.cmd = "reverse" -> rec.resolved.oldFact

\* C19: the fact printed for a seed name is the snapshot of the earliest use of
\* that name, whatever a later 反证, a later use of the name or a later
\* overwrite of the global fact did to it.
C19_SeedIsEarliestSnapshot ==
    LET lines == serializeAll(current)
        used == UNION {InputNames(commandHistory[i]) : i \in 1..Len(commandHistory)}
    IN  \A n \in SeedNames(lines) \cap used :
            LET original == SnapshotIn(commandHistory[EarliestUse(commandHistory, n)], n)
            IN  original # null =>
                  \E k \in 1..Len(lines) :
                      lines[k] = Line(0, <<"you ", n, " : ">> \o factToOriginalString(original)
                                            \o <<" shi // seeded">>)

\* the lines of a serialization after the seed preamble
Body(lines) ==
    SelectSeq(lines, LAMBDA l : l.text[Len(l.text)] # " shi // seeded")

\* the start_frame and cmd records of a history, in order
Rendered(hist) == SelectSeq(hist, LAMBDA rec : rec.kind \in {"start_frame", "cmd"})

\* the line whose block the k-th line is directly nested in: the nearest
\* earlier line that is indented less; 0 at indentation 0
Enclosing(body, k) ==
    IF body[k].indent = 0 THEN 0
    ELSE CHOOSE j \in 0..(k - 1) :
            /\ j > 0 => body[j].indent < body[k].indent
            /\ \A i \in (j + 1)..(k - 1) : body[i].indent >= body[k].indent

\* the position of the header of frame f among the rendered records; 0 for f = 0
HeaderOf(recs, f) ==
    IF f = 0 THEN 0
    ELSE CHOOSE k \in 1..Len(recs) : recs[k].kind = "start_frame" /\ recs[k].frameId = f

\* C20: the body of serializeAll has one line per start_frame and cmd record,
\* in the order of the history; the header of a frame is directly inside the
\* block of its parent frame (at indentation 0 when it has none), and a command
\* line is directly inside the block of the frame the command was applied to.
C20_NestingReconstructed ==
    LET body == Body(serializeAll(current))
        recs == Rendered(commandHistory)
    IN  /\ Len(body) = Len(recs)
        /\ \A k \in 1..Len(recs) :
              IF recs[k].kind = "cmd"
              THEN /\ body[k].text = renderCommandRecord(recs[k])
                   /\ Enclosing(body, k) = HeaderOf(recs, recs[k].frameId)
              ELSE /\ body[k].text = <<"you ", recs[k].frameName, " : ">>
                                        \o factToOriginalString(recs[k].goal) \o <<" shi">>
                   /\ recs[k].parentFrameId \in 0..Len(frames) =>
                         Enclosing(body, k) = HeaderOf(recs, recs[k].parentFrameId)

\* a line of a serialization that is a comment: its text starts with "// "
Commented(l) == l.text # <<>> /\ l.text[1] = "// "

\* the history holds a finalize_frame record of frame f
Finalized(hist, f) ==
    \E i \in 1..Len(hist) : hist[i].kind = "finalize_frame" /\ hist[i].frameId = f

\* C21: in the output of serializeAll every start_frame and cmd record has its
\* line, the lines of a frame that has no finalize record are comments, and the
\* lines of a finalized frame are not.
C21_OpenFramesCommented ==
    LET body == Body(serializeAll(current))
        recs == Rendered(commandHistory)
    IN  /\ Len(body) = Len(recs)
        /\ \A k \in 1..Len(recs) :
              Commented(body[k]) <=> ~Finalized(commandHistory, recs[k].frameId)

\* the validator ran every command of the proof file on its session, and each
\* of them succeeded
AllCommandsSucceeded ==
    /\ treeLast.op = "processBatch"
    /\ sessions # <<>>
    /\ Len(sessions[1].executedCommands) = Len(treeLast.proofFile.lines)
    /\ \A k \in 1..Len(sessions[1].executedCommands) : sessions[1].executedCommands[k].success

\* C22: a batch whose commands all execute successfully and leave the goal
\* unproven is scored (error_count, proved) = (0, 0).
C22_IncompleteScoresZero ==
    (AllCommandsSucceeded /\ ~isComplete(sessions[1])) =>
        treeLast.result.evaluation_score = [error_count |-> 0, proved |-> 0]

\* C23: once a frame has been finalized, no later operation changes its goal,
\* its context or its command list, the finalize of one of its child frames
\* included.
C23_FinalizedFrameFrozen ==
    frameLast.op \in {"addGlobalFact", "startHave", "addCommand", "finalize"} =>
        \A f \in 1..Len(frameLast.pre.frames) :
            frameLast.pre.frames[f].completed =>
                /\ frames[f].goal = frameLast.pre.frames[f].goal
                /\ frames[f].context = frameLast.pre.frames[f].context
                /\ frames[f].commands = frameLast.pre.frames[f].commands

\* the context new is the context old with one entry more, bound to name
GainedOnly(old, new, name) ==
    /\ Len(new) = Len(old) + 1
    /\ SubSeq(new, 1, Len(old)) = old
    /\ new[Len(new)].name = name

\* C24: a finalize that succeeds adds one entry, under the frame's name, to the
\* context of the direct parent (to the global context for a top-level frame)
\* and changes no other context, so frames already started do not see the fact;
\* a frame started afterwards starts with the context of its parent as it then
\* is; a finalize that fails and a command on a frame change no other context.
C24_FactsEnterByFinalize ==
    LET pre == frameLast.pre
        f == frameLast.frameId
    IN  /\ (frameLast.op = "finalize" /\ frameLast.result = "ok") =>
              LET p == frames[f].parentFrameId
              IN  /\ IF p = 0 THEN GainedOnly(pre.globalContext, globalContext, frames[f].name)
                     ELSE globalContext = pre.globalContext
                  /\ \A k \in 1..Len(frames) :
                        IF k = p
                        THEN GainedOnly(pre.frames[k].context, frames[k].context, frames[f].name)
                        ELSE frames[k].context = pre.frames[k].context
        /\ (frameLast.op = "finalize" /\ frameLast.result # "ok") =>
              /\ globalContext = pre.globalContext
              /\ \A k \in 1..Len(frames) : frames[k].context = pre.frames[k].context
        /\ frameLast.op = "addCommand" =>
              /\ globalContext = pre.globalContext
              /\ \A k \in 1..Len(frames) : k # f => frames[k].context = pre.frames[k].context
        /\ frameLast.op = "startHave" =>
              /\ globalContext = pre.globalContext
              /\ \A k \in 1..Len(pre.frames) : frames[k].context = pre.frames[k].context
              /\ frames[f].context = IF frames[f].parentFrameId \in 1..Len(pre.frames)
                                     THEN frames[frames[f].parentFrameId].context
                                     ELSE globalContext

\* a finalize added the frame's fact to its destination while another frame,
\* started earlier from the same context, is open and does not have the name
C24_Witness ==
    /\ frameLast.op = "finalize"
    /\ frameLast.result = "ok"
    /\ has(Destination(current, frameLast.frameId), frames[frameLast.frameId].name)
    /\ \E g \in 1..Len(frames) :
          /\ g # frameLast.frameId
          /\ frames[g].parentFrameId = frames[frameLast.frameId].parentFrameId
          /\ ~frames[g].completed
          /\ ~has(frames[g].context, frames[frameLast.frameId].name)

\* the context new has the names of the context old at their positions; the
\* entries of old whose fact differs in new are those of the names in changed
KeptBut(old, new, changed) ==
    /\ Len(old) <= Len(new)
    /\ \A k \in 1..Len(old) :
          /\ new[k].name = old[k].name
          /\ new[k].fact # old[k].fact => old[k].name \in changed

\* C26: no operation removes a name from a context or moves a name that is
\* there; the fact of a name of a frame's context changes only by a 反证 that
\* succeeds on that frame naming it, the fact of a name of the global context
\* only by addGlobalFact or seedGlobalContext called with overwrite = true;
\* every other operation at most appends names.
C26_NamesStayFactsChangeBySwap ==
    frameLast.op \in {"addGlobalFact", "seedGlobalContext", "startHave", "addCommand",
                      "finalize"} =>
        LET pre == frameLast.pre
            overwriting == frameLast.result = "ok" /\ frameLast.cmd.overwrite
            listed == IF frameLast.op = "addGlobalFact" /\ overwriting
                      THEN {frameLast.cmd.cmd}
                      ELSE IF frameLast.op = "seedGlobalContext" /\ overwriting
                      THEN UNION {{l[k].name : k \in 1..Len(l)} : l \in SeedLists}
                      ELSE {}
            swapOn(k) == /\ frameLast.op = "addCommand"
                         /\ frameLast.result = "ok"
                         /\ frameLast.frameId = k
                         /\ frameLast.cmd.cmd = "fanzheng"
        IN  /\ KeptBut(pre.globalContext, globalContext, listed)
            /\ Len(pre.frames) <= Len(frames)
            /\ \A k \in 1..Len(pre.frames) :
                  KeptBut(pre.frames[k].context, frames[k].context,
                          IF swapOn(k) THEN {frameLast.cmd.hypName} ELSE {})

\* seedGlobalContext with overwrite = true has given c_nonzero another fact in
\* the global context, with a frame at hand whose 反证 made its own c_nonzero
\* an Equality
C26_Witness ==
    /\ frameLast.op = "seedGlobalContext"
    /\ frameLast.result = "ok"
    /\ Bound(globalContext, "c_nonzero") # Bound(frameLast.pre.globalContext, "c_nonzero")
    /\ keys(globalContext) = keys(frameLast.pre.globalContext)
    /\ \E k \in 1..Len(frames) :
          /\ Bound(frames[k].context, "c_nonzero").kind = "eq"
          /\ keys(frames[k].context) = keys(globalContext)

\* C27: 再写 with an occurrence outside 1..n, n the number of candidates (n = 0,
\* the occurrence 0 and negative occurrences included), returns failure, throws
\* nothing and leaves the State as it is; so does 再写 with a name that is
\* neither an Equality of the context nor a rule of the registry.
C27_RewriteOutOfRangeFails ==
    \A cmd \in RewriteCommands(state) :
        LET n == Len(rewriteOccurrences(DEFAULT_REWRITE_RULES, state, cmd.equalityName))
            f == getFact(state.context, cmd.equalityName)
            known == \/ f # undefined /\ f.kind = "eq"
                     \/ cmd.equalityName \in DOMAIN DEFAULT_REWRITE_RULES
            r == runCommand(state, cmd, FALSE)
        IN  (cmd.occurrence \notin 1..n \/ ~known) =>
                r.result = "fail" /\ r.state = state

\* the name does not prove a denominator non-zero in the context: it is absent,
\* bound to an Equality, or bound to an Inequality whose rhs is not the number 0
NoDenominatorProof(ctx, name) ==
    \/ name \notin Names(ctx)
    \/ /\ name \in Names(ctx)
       /\ \/ Bound(ctx, name).kind = "eq"
          \/ Bound(ctx, name).kind = "neq" /\ Bound(ctx, name).rhs # zero

\* C28: 多能 called with a supplied name that is absent, bound to an Equality or
\* bound to an Inequality whose rhs is not the numeric constant 0 fails and
\* changes nothing whatever the simplifier would answer, also when the goal
\* has no denominator that needs a proof.
C28_DenominatorProofsValidatedFirst ==
    \A cmd \in DuonengCommands(state) :
        (\E k \in 1..Len(cmd.denomProofs) : NoDenominatorProof(state.context, cmd.denomProofs[k]))
            => \A oracle \in BOOLEAN :
                   runCommand(state, cmd, oracle) = Returned("fail", state)

\* a 多能 was rejected for an Equality goal without denominators that the
\* simplifier reduces to 0, in a State that has an Equality and lacks a name
\* to supply
C28_Witness ==
    /\ last.cmd.cmd = "duoneng"
    /\ last.result = "fail"
    /\ last.steps >= 1
    /\ state.goal.kind = "eq"
    /\ neededDenominators(state.goal) = <<>>
    /\ runCommand(state, [cmd |-> "duoneng", denomProofs |-> <<>>], TRUE).result = "ok"
    /\ \E cmd \in DuonengCommands(state) :
          /\ cmd.denomProofs # <<>>
          /\ cmd.denomProofs[1] \in Names(state.context)
          /\ Bound(state.context, cmd.denomProofs[1]).kind = "eq"
          /\ runCommand(state, cmd, TRUE).result = "fail"

\* C29: 重反 of oldName bound to an Equality l = r with a newName that is not in
\* the context succeeds, appends newName: r = l after the last name and leaves
\* every other entry, the goal and the completion flag as they were; it fails
\* and changes nothing when oldName is absent or bound to an Inequality; 重反 of
\* the new fact appends a fact equal to l = r.
C29_ReverseAppendsTurnedFact ==
    ~state.explicitCompletion =>
        \A cmd \in ReverseCommands(state) :
            LET r == runCommand(state, cmd, FALSE)
                again == CHOOSE n \in {"n1", "n2", "n3"} :
                             n # cmd.newName /\ n \notin Names(state.context)
            IN  IF cmd.oldName \in Names(state.context)
                   /\ Bound(state.context, cmd.oldName).kind = "eq"
                THEN cmd.newName \notin Names(state.context) =>
                        LET f == Bound(state.context, cmd.oldName)
                            rr == runCommand(r.state, [cmd |-> "reverse", oldName |-> cmd.newName,
                                                       newName |-> again], FALSE)
                        IN  /\ r.result = "ok"
                            /\ r.state = [state EXCEPT !.context =
                                   Append(@, Entry(cmd.newName, eq(f.rhs, f.lhs)))]
                            /\ rr.result = "ok"
                            /\ rr.state.context = Append(r.state.context, Entry(again, f))
                ELSE r = Returned("fail", state)

\* a fact made by 重反 has been turned once more: the context holds l = r under
\* its first name, r = l under the second and l = r again under the third
C29_Witness ==
    /\ last.cmd.cmd = "reverse"
    /\ last.result = "ok"
    /\ last.cmd.oldName \in NewNames
    /\ Len(state.context) = Len(last.pre.context) + 1
    /\ state.context[Len(state.context)].name = last.cmd.newName
    /\ \E k \in 1..Len(last.pre.context) :
          /\ state.context[k].name \notin NewNames
          /\ state.context[k].fact = Bound(state.context, last.cmd.newName)
          /\ state.context[k].fact.lhs # state.context[k].fact.rhs
          /\ Bound(state.context, last.cmd.oldName) =
                 eq(state.context[k].fact.rhs, state.context[k].fact.lhs)

\* C30: a pattern matches a node exactly when one assignment of terms to its
\* meta-variables turns the pattern into the node (every position of a repeated
\* meta-variable holds the same term, operators, names and arities agree), the
\* bindings returned are that assignment, and the occurrences found in a term
\* are the nodes that match on their own, each once and with its own bindings.
C30_ConsistentBindings ==
    \A n \in RuleNames : \A root \in {state.goal.lhs, state.goal.rhs} :
    \A pattern \in {DEFAULT_REWRITE_RULES[n].lhs, DEFAULT_REWRITE_RULES[n].rhs} :
        LET found == findPatternOccurrencesInExpr(root, pattern)
        IN  /\ {found[k].path : k \in 1..Len(found)} =
                   {p \in PathsOf(root) : MatchesOf(pattern, getAtPathInExpr(root, p)) # {}}
            /\ \A j, k \in 1..Len(found) : found[j].path = found[k].path => j = k
            /\ \A k \in 1..Len(found) :
                   MatchesOf(pattern, getAtPathInExpr(root, found[k].path)) = {found[k].bindings}

\* sqnorm_def has rewritten the goal, which holds t * conj(t), found by the
\* pattern ?a * conj(?a), and u * conj(v) with u and v different, not found
C30_Witness ==
    LET pattern == DEFAULT_REWRITE_RULES["sqnorm_def"].rhs
        shaped(t) == /\ t.type = "op" /\ t.op = "mul"
                     /\ t.args[2].type = "func" /\ t.args[2].name = "conj"
    IN  /\ last.cmd.cmd = "rewrite"
        /\ last.result = "ok"
        /\ last.cmd.equalityName = "sqnorm_def"
        /\ \E t \in Subterms(state.goal.lhs) :
              /\ shaped(t)
              /\ t.args[1] = t.args[2].args[1]
              /\ patternMatch(pattern, t, <<>>).ok
        /\ \E t \in Subterms(state.goal.rhs) :
              /\ shaped(t)
              /\ t.args[1] # t.args[2].args[1]
              /\ ~patternMatch(pattern, t, <<>>).ok
              /\ findPatternOccurrencesInExpr(state.goal.rhs, pattern) = <<>>

\* the State st, rewritten under the name e at the path p of one of the
\* candidates it has under e, is the State to
RewritesBack(st, e, p, to) ==
    LET occ == rewriteOccurrences(DEFAULT_REWRITE_RULES, st, e)
    IN  \E j \in 1..Len(occ) :
            /\ occ[j].path = p
            /\ runCommand(st, [cmd |-> "rewrite", occurrence |-> j, equalityName |-> e], FALSE)
                   = Returned("ok", to)

StartedDangling(f) == frames[f].parentFrameId >= f

\* C32: a startHave whose parentFrameId names no frame creates and records a
\* frame with a copy of the global context and the dangling id as its parent;
\* such a frame is never finalized: a finalize of it does not succeed (with the
\* goal proved it answers that the parent frame was not found) and the frame's
\* name does not enter a context through it.
C32_DanglingParentNeverFinalized ==
    /\ (frameLast.op = "startHave" /\ StartedDangling(frameLast.frameId)) =>
          /\ Len(frames) = Len(frameLast.pre.frames) + 1
          /\ frames[frameLast.frameId].context = globalContext
          /\ commandHistory[Len(commandHistory)].kind = "start_frame"
          /\ commandHistory[Len(commandHistory)].parentFrameId
                 = frames[frameLast.frameId].parentFrameId
    /\ \A f \in 1..Len(frames) :
          StartedDangling(f) =>
              /\ ~frames[f].completed
              /\ finalize(current, f).result # "ok"
              /\ legacy_checkGoalProved(frames[f].context, frames[f].goal) =>
                     finalize(current, f).message = "parent frame not found"

\* the names finalizeNestedProof is asked with: those of the callers and one
\* that no context has
ProbedFactNames == FactNames \cup {"unused"}

\* C33: finalizeNestedProof(child, factName) returns false and changes nothing
\* when the child is not an active child of the session, is not complete, or
\* factName is in the session's context; otherwise it appends the child's
\* original goal under factName, records the child as proved and removes it
\* from the active children, and changes nothing else.  A session is an active
\* child of its parent only, a session that left the active children does not
\* come back, is recorded as proved at most once, and every finalizeNestedProof
\* of it returns false, so also after cleanupCompletedChildren removed it.
C33_FinalizeNestedOnce ==
    /\ \A p, ch \in 1..Len(sessions) : \A factName \in ProbedFactNames :
          LET r == finalizeNestedProof(sessions, p, ch, factName)
          IN  IF /\ ch \in sessions[p].children
                 /\ isComplete(sessions[ch])
                 /\ factName \notin Names(sessions[p].state.context)
              THEN /\ r.result = "ok"
                   /\ r.sessions = [sessions EXCEPT
                          ![p].state.context =
                              Append(@, Entry(factName, sessions[ch].originalGoal)),
                          ![p].childProofs = Append(@, [child |-> ch, factName |-> factName]),
                          ![p].children = @ \ {ch}]
              ELSE r = [result |-> "fail", sessions |-> sessions]
    /\ \A p, ch \in 1..Len(sessions) :
          /\ ch \in sessions[p].children => sessions[ch].parent = p
          /\ Cardinality({k \in 1..Len(sessions[p].childProofs) :
                             sessions[p].childProofs[k].child = ch}) <= 1
          /\ (\E k \in 1..Len(sessions[p].childProofs) : sessions[p].childProofs[k].child = ch)
                => sessions[ch].parent = p /\ ch \notin sessions[p].children
    /\ treeLast.op \in {"runCommand", "startNestedProof", "finalizeNestedProof",
                        "cleanupCompletedChildren"} =>
          \A p \in 1..Len(treeLast.pre) :
              sessions[p].children \cap 1..Len(treeLast.pre) \subseteq treeLast.pre[p].children

\* cleanupCompletedChildren has removed a complete child, the name is free in
\* the parent's context, and finalizeNestedProof of that child returns false
C33_Witness ==
    /\ treeLast.op = "cleanupCompletedChildren"
    /\ \E ch \in treeLast.pre[treeLast.session].children :
          /\ ch \notin sessions[treeLast.session].children
          /\ isComplete(sessions[ch])
          /\ ~has(sessions[treeLast.session].state.context, "product_nonzero")
          /\ sessions[treeLast.session].childProofs = <<>>
          /\ finalizeNestedProof(sessions, treeLast.session, ch, "product_nonzero").result
                 = "fail"

\* both files are read and hold no line that fails to parse or to validate
BatchValid(inputFile, proofFile) ==
    /\ inputFile.readable
    /\ Len(inputFile.lines) = 1
    /\ inputFile.lines[1] \in BatchInputs
    /\ proofFile.readable
    /\ \A k \in 1..Len(proofFile.lines) :
          proofFile.lines[k] \in {[command |-> cmd] : cmd \in BatchCommands}

\* the session ss[1] after session.runCommand of the first k lines, in order
RECURSIVE AfterLines(_, _, _, _)
AfterLines(ss, lines, oracles, k) ==
    IF k = 0 THEN ss
    ELSE sessionRunCommand(AfterLines(ss, lines, oracles, k - 1), 1,
                           lines[k].command, oracles[k]).sessions

\* C34: processBatch runs the commands of the proof file in file order on one
\* session and stops after the first command after which the session is
\* complete, running no later command; proved is 1 exactly when the session is
\* complete when the execution stops; with a parse or validation error in the
\* input or the proof file no command is run and proved is 0.
C34_BatchStopsAtCompletion ==
    treeLast.op = "processBatch" =>
        LET lines == treeLast.proofFile.lines
            proved == treeLast.result.evaluation_score.proved
        IN  IF BatchValid(treeLast.inputFile, treeLast.proofFile)
            THEN LET input == treeLast.inputFile.lines[1]
                     start == <<NewSession(input.goal, input.hypotheses, 0)>>
                     n == Len(sessions[1].executedCommands)
                 IN  /\ Len(sessions) = 1
                     /\ n <= Len(lines)
                     /\ sessions = AfterLines(start, lines, treeLast.oracles, n)
                     /\ \A k \in 1..(n - 1) :
                           ~isComplete(AfterLines(start, lines, treeLast.oracles, k)[1])
                     /\ n < Len(lines) => n >= 1 /\ isComplete(sessions[1])
                     /\ proved = 1 <=> isComplete(sessions[1])
            ELSE sessions = <<>> /\ proved = 0

\* the lists seedGlobalContext is probed with: the lists of the sessions and
\* one that names a new fact twice
SeedProbes ==
    NestingSeeds \cup SeedLists
        \cup {<<Entry("seeded", neq(b, zero)), Entry("seeded", neq(a, zero))>>}

\* the names the global context g has when the k-th fact of l is reached
NamesBefore(g, l, k) ==
    {g[j].name : j \in 1..Len(g)} \cup {l[j].name : j \in 1..(k - 1)}

\* the places of l whose name is there when seedGlobalContext reaches them
Collisions(g, l) == {k \in 1..Len(l) : l[k].name \in NamesBefore(g, l, k)}

\* g with the facts of the first n places of l added at the end, in order
RECURSIVE WithFirst(_, _, _)
WithFirst(g, l, n) ==
    IF n = 0 THEN g ELSE Append(WithFirst(g, l, n - 1), Entry(l[n].name, l[n].fact))

FirstOf(S) == CHOOSE k \in S : \A j \in S : k <= j

\* C35: seedGlobalContext with overwrite = false goes through the facts in the
\* order of the list and is not atomic: at the first name that is already in
\* the global context it returns failure, the facts before that one have been
\* added and stay in the global context, and the facts after it are not
\* added; without such a name every fact is added.
C35_SeedingStopsAtCollision ==
    \A l \in SeedProbes :
        LET r == seedGlobalContext(current, l, FALSE)
            hit == Collisions(globalContext, l)
            n == IF hit = {} THEN Len(l) ELSE FirstOf(hit) - 1
        IN  /\ r.result = (IF hit = {} THEN "ok" ELSE "fail")
            /\ r.globalContext = WithFirst(globalContext, l, n)
            /\ r.frames = frames
            /\ r.commandHistory = commandHistory

\* a seeding has failed at c_nonzero after it added "seeded": the fact is in
\* the global context and the fact listed after c_nonzero is not
C35_Witness ==
    /\ frameLast.op = "seedGlobalContext"
    /\ frameLast.result = "fail"
    /\ ~has(frameLast.pre.globalContext, "seeded")
    /\ has(globalContext, "seeded")
    /\ has(globalContext, "c_nonzero")
    /\ ~has(globalContext, "later")

====
